---- MODULE Spec2Model ----
(***************************************************************************)
(* Model of the LangChain multi-model examples: the tool functions of      *)
(* tool_usage.py, ModelConfig of config.py, and the single-round tool-use  *)
(* loop of MultiModelResearchAssistant.research and of                     *)
(* demonstrate_tool_usage, compare_models, the record schemas,             *)
(* demonstrate_basic_chat, the parallel execution of                       *)
(* demonstrate_lcel_pipelines and the company extraction of                *)
(* demonstrate_structured_outputs.                                         *)
(*                                                                         *)
(* Texts are TLA+ strings; f-strings are modelled by concatenation.        *)
(***************************************************************************)
EXTENDS Integers, Sequences, FiniteSets, TLC

VARIABLES
    \* ---- direct tool invocation (tool_usage.py, as the tests call it)
    toolCall,        \* the last tool invocation: tool, argument, outcome, text
    clock,           \* the local clock: index of its present value in Clocks
    \* ---- ModelConfig (config.py)
    provider,        \* self.provider
    openai_api_key,  \* self.openai_api_key
    anthropic_api_key, \* self.anthropic_api_key
    ctorFails,       \* providers whose SDK constructor raises (environment)
    getModel,        \* the last get_model call: argument, outcome, handle
    gam_pc,          \* get_all_models: position of the call
    gam_i,           \* get_all_models: index of the provider tried next
    gam_models,      \* get_all_models: the dict `models`, keys in insertion order
    gam_tried,       \* get_all_models: providers tried so far, in order
    gam_out,         \* get_all_models: diagnostics printed, in order
    \* ---- the tool-use round (research_assistant.py, tool_usage.py)
    models,          \* the dict given to the assistant / the demo: keys in order
    bindable,        \* names whose model.bind_tools(tools) does not raise
    tool_models,     \* self.tool_models / tool_capable_models: keys in order
    ctx,             \* which loop runs the round: "research" or "demo"
    pc,              \* position inside the round
    call,            \* the arguments of the running call (query, model_name)
    used_model,      \* used_model (research) / name (demo)
    messages,        \* the ConversationTurn
    response,        \* the variable `response`
    tc_i,            \* index of the next tool call of the for loop
    sources,         \* research: sources
    log,             \* what the round did: model calls, lookups, executions
    result,          \* research: the value returned, or NoResult
    fault,           \* the exception that left the round, or NoFault
    demo_pos,        \* demo: <<section, query index, model index>>
    \* ---- the record schemas (structured_outputs.py, research_assistant.py)
    validation,      \* the last construction of a record: schema, fields, outcome
    \* ---- demonstrate_basic_chat (basic_chat.py)
    chat_models,     \* the dict `models`: keys in order
    chat_temp,       \* the names whose model has the attribute temperature
    chat_pc,         \* "idle", "running", "returned" or "raised"
    chat_i,          \* index of the next loop iteration in ChatPlan
    chat_log,        \* the iterations run: what was called, what faulted
    \* ---- the parallel execution of demonstrate_lcel_pipelines (lcel_pipelines.py)
    par_members,     \* the keys of parallel_chains, in order
    par_state,       \* each member call: "running", "done" or "failed"
    par_value,       \* each member call's own output
    par_order,       \* the members in the order their calls ended
    par_pc,          \* the caller: "idle", "awaiting", "joined" or "failed"
    par_results,     \* the dict `results` the caller holds
    par_out,         \* the lines the caller printed
    \* ---- company extraction of demonstrate_structured_outputs
    ext_models,      \* the dict `models`: keys in order
    ext_native,      \* the names whose model has with_structured_output
    ext_pc,          \* "idle", "native", "fallback" or "done"
    ext_i,           \* index of the model of the running iteration
    ext_log,         \* the attempts made: model, strategy, outcome, report
    \* ---- compare_models (research_assistant.py)
    cmp_pc,          \* "idle", "running", "returned" or "raised"
    cmp_query,       \* the argument query
    cmp_i,           \* index in tool_models of the model_name of the iteration
    cmp_runs,        \* the research calls that ended: model_name, outcome
    cmp_results,     \* the dict `results`: entries in insertion order, each
                     \*   result by its kind, topic and model_used
    cmp_out          \* the lines printed

toolVars   == <<toolCall, clock>>
configVars == <<provider, openai_api_key, anthropic_api_key, ctorFails,
                getModel, gam_pc, gam_i, gam_models, gam_tried, gam_out>>
roundVars  == <<models, bindable, tool_models, ctx, pc, call, used_model,
                messages, response, tc_i, sources, log, result, fault, demo_pos>>
schemaVars == <<validation>>
chatVars   == <<chat_models, chat_temp, chat_pc, chat_i, chat_log>>
lcelVars   == <<par_members, par_state, par_value, par_order, par_pc,
                par_results, par_out>>
extractVars == <<ext_models, ext_native, ext_pc, ext_i, ext_log>>
compareVars == <<cmp_pc, cmp_query, cmp_i, cmp_runs, cmp_results, cmp_out>>
exampleVars == <<schemaVars, chatVars, lcelVars, extractVars, compareVars>>
notSchemaVars == <<toolVars, configVars, roundVars, chatVars, lcelVars, extractVars,
                   compareVars>>
notChatVars == <<toolVars, configVars, roundVars, schemaVars, lcelVars, extractVars,
                 compareVars>>
notLcelVars == <<toolVars, configVars, roundVars, schemaVars, chatVars, extractVars,
                 compareVars>>
notExtractVars == <<toolVars, configVars, roundVars, schemaVars, chatVars, lcelVars,
                    compareVars>>
notRoundVars == <<toolVars, configVars, schemaVars, chatVars, lcelVars, extractVars>>
vars == <<toolCall, clock, provider, openai_api_key, anthropic_api_key, ctorFails,
          getModel, gam_pc, gam_i, gam_models, gam_tried, gam_out,
          models, bindable, tool_models, ctx, pc, call, used_model,
          messages, response, tc_i, sources, log, result, fault, demo_pos,
          exampleVars>>

(***************************************************************************)
(* Text helpers                                                            *)
(***************************************************************************)
\* Python: s.startswith(p)
StartsWith(s, p) ==
    Len(p) <= Len(s) /\ SubSeq(s, 1, Len(p)) = p

\* Python: p in s
Contains(s, p) ==
    \E i \in 1..(Len(s) - Len(p) + 1) : SubSeq(s, i, i + Len(p) - 1) = p

\* The elements of a sequence, as a set
Range(s) == { s[i] : i \in 1..Len(s) }

\* Python None
None == "<None>"

(***************************************************************************)
(* More text helpers                                                       *)
(***************************************************************************)
UpperChars == "ABCDEFGHIJKLMNOPQRSTUVWXYZ"

LowerChars == "abcdefghijklmnopqrstuvwxyz"

\* str.lower() of one character
LowerChar(c) ==
    IF \E i \in 1..Len(UpperChars) : SubSeq(UpperChars, i, i) = c
    THEN LET i == CHOOSE j \in 1..Len(UpperChars) : SubSeq(UpperChars, j, j) = c
         IN  SubSeq(LowerChars, i, i)
    ELSE c

RECURSIVE Lower(_)
\* str.lower()
Lower(s) ==
    IF Len(s) = 0 THEN ""
    ELSE LowerChar(SubSeq(s, 1, 1)) \o Lower(SubSeq(s, 2, Len(s)))

RECURSIVE Join(_, _)
\* sep.join(parts)
Join(sep, parts) ==
    IF Len(parts) = 0 THEN ""
    ELSE IF Len(parts) = 1 THEN parts[1]
    ELSE parts[1] \o sep \o Join(sep, Tail(parts))

\* seq[:limit], Python slicing: a negative limit counts from the end
SliceTo(seq, limit) ==
    LET n == Len(seq)
        stop == IF limit >= 0
                THEN (IF limit < n THEN limit ELSE n)
                ELSE (IF n + limit > 0 THEN n + limit ELSE 0)
    IN  SubSeq(seq, 1, stop)

(***************************************************************************)
(* tool_usage.py: get_weather                                              *)
(***************************************************************************)
conditions == <<"Sunny", "Cloudy", "Rainy", "Partly Cloudy">>

TempLow == 15

TempHigh == 30

\* random.randint(15, 30): both ends included
TempDraws == TempLow..TempHigh

\* random.choice(conditions)
ConditionDraws == Range(conditions)

\* Mutant: the city is normalised before it is put in the text
get_weather_lowercased(city, condition, temp) ==
    Lower(city) \o ": " \o condition \o ", " \o ToString(temp) \o "°C"

get_weather(city, condition, temp) ==
    city \o ": " \o condition \o ", " \o ToString(temp) \o "°C"

(***************************************************************************)
(* tool_usage.py: calculate                                                *)
(***************************************************************************)
\* An expression whose evaluation raises BaseException itself (reached through
\* object.__subclasses__(), which needs no builtin).
EscapeExpr ==
    "(_ for _ in ()).throw([c for c in ().__class__.__base__.__subclasses__() if c.__name__ == 'BaseException'][0])"

\* eval(expression, {"__builtins__": {}}, allowed_names) on the expressions of
\* the model: the value's str(), or the exception raised and its str().
\* kind "Exception" is an instance of Exception; kind "BaseException" is not.
Eval(expression) ==
    CASE expression = "2 + 2"       -> [kind |-> "value", text |-> "4"]
      [] expression = "abs(-3)"     -> [kind |-> "value", text |-> "3"]
      [] expression = "round(2.5)"  -> [kind |-> "value", text |-> "2"]
      [] expression = "pi"          -> [kind |-> "value", text |-> "3.141592653589793"]
      [] expression = "invalid"     -> [kind |-> "Exception", text |-> "name 'invalid' is not defined"]
      [] expression = "1/0"         -> [kind |-> "Exception", text |-> "division by zero"]
      [] expression = "sqrt(-1)"    -> [kind |-> "Exception", text |-> "math domain error"]
      [] expression = "2 +"         -> [kind |-> "Exception", text |-> "invalid syntax (<string>, line 1)"]
      [] expression = ""            -> [kind |-> "Exception", text |-> "invalid syntax (<string>, line 0)"]
      [] expression = EscapeExpr    -> [kind |-> "BaseException", text |-> ""]

Expressions ==
    {"2 + 2", "abs(-3)", "round(2.5)", "pi", "invalid", "1/0", "sqrt(-1)",
     "2 +", "", EscapeExpr}

\* try: result = eval(...); return f"Result: {result}"
\* except Exception as e: return f"Error: {str(e)}"
\* An exception that is no Exception passes the except clause.
calculate(expression) ==
    LET r == Eval(expression) IN
    CASE r.kind = "value"     -> [outcome |-> "returned", text |-> "Result: " \o r.text]
      [] r.kind = "Exception" -> [outcome |-> "returned", text |-> "Error: " \o r.text]
      [] OTHER                -> [outcome |-> "raised", text |-> r.kind]

(***************************************************************************)
(* tool_usage.py: get_time, search_knowledge                               *)
(***************************************************************************)
\* f"Current time in {timezone}: {datetime.now().strftime('%Y-%m-%d %H:%M:%S')}"
\* now: the formatted local clock value
\* Mutant: the clock value is converted to the timezone asked for
get_time_zoned(timezone, now) ==
    "Current time in " \o timezone \o ": "
        \o (IF timezone = "UTC" THEN now
            ELSE SubSeq(now, 1, 11) \o "07" \o SubSeq(now, 14, Len(now)))

get_time(timezone, now) ==
    "Current time in " \o timezone \o ": " \o now

\* The dict `knowledge`, in insertion order
knowledge ==
    << <<"langchain", "LangChain is a framework for developing applications powered by language models.">>,
       <<"python", "Python is a high-level programming language known for its simplicity.">>,
       <<"ai", "Artificial Intelligence is the simulation of human intelligence by machines.">> >>

\* Mutant: the query is matched as given, without lower-casing
search_knowledge_cased(query) ==
    LET hits == { i \in 1..Len(knowledge) : Contains(query, knowledge[i][1]) }
    IN  IF hits # {}
        THEN knowledge[CHOOSE i \in hits : \A j \in hits : i <= j][2]
        ELSE "No information found for '" \o query \o "'"

search_knowledge(query) ==
    LET query_lower == Lower(query)
        hits == { i \in 1..Len(knowledge) : Contains(query_lower, knowledge[i][1]) }
    IN  IF hits # {}
        THEN knowledge[CHOOSE i \in hits : \A j \in hits : i <= j][2]
        ELSE "No information found for '" \o query \o "'"

(***************************************************************************)
(* research_assistant.py: search_papers, get_statistics, get_expert_opinion *)
(***************************************************************************)
papers(topic) ==
    << "'" \o topic \o "' - Comprehensive Review (2024)",
       "Advances in " \o topic \o ": Recent Developments (2023)",
       "Understanding " \o topic \o ": A Practical Guide (2024)",
       topic \o " Applications in Industry (2023)",
       "Future of " \o topic \o ": Predictions and Trends (2024)" >>

\* limit: int = 5
DefaultLimit == 5

search_papers(topic, limit) ==
    "Found " \o ToString(Len(SliceTo(papers(topic), limit))) \o " papers:\n"
        \o Join("\n", SliceTo(papers(topic), limit))

\* draws: <<growth, adoption, investment, published>>, the four random.randint
get_statistics(topic, draws) ==
    "Statistics for " \o topic \o ":\n"
        \o "    - Annual growth rate: " \o ToString(draws[1]) \o "%\n"
        \o "    - Industry adoption: " \o ToString(draws[2]) \o "%\n"
        \o "    - Investment (billions): $" \o ToString(draws[3]) \o "B\n"
        \o "    - Research papers published (2023): " \o ToString(draws[4])

\* The dict `opinions`, in insertion order ("default" is one of its keys)
opinions(topic) ==
    << <<"ai", "AI will transform every industry, but ethical considerations are crucial.">>,
       <<"blockchain", "Blockchain's real value lies in transparency and decentralization.">>,
       <<"quantum", "Quantum computing will revolutionize cryptography and drug discovery.">>,
       <<"default", topic \o " shows promising potential but requires careful implementation.">> >>

get_expert_opinion(topic) ==
    LET ops == opinions(topic)
        hits == { i \in 1..Len(ops) : Contains(Lower(topic), ops[i][1]) }
    IN  IF hits # {}
        THEN "Expert opinion on " \o topic \o ": "
                \o ops[CHOOSE i \in hits : \A j \in hits : i <= j][2]
        ELSE "Expert opinion on " \o topic \o ": " \o ops[4][2]

(***************************************************************************)
(* Direct invocation of the tools, as the tests do: tool.invoke({...})      *)
(***************************************************************************)
Cities == {"London", "Paris", "New York", "", "Sao Paulo, BR"}

NoToolCall == [tool |-> None, arg |-> "", outcome |-> "none", text |-> ""]

\* Values datetime.now().strftime('%Y-%m-%d %H:%M:%S') takes, in time order
Clocks == <<"2024-01-01 12:00:00", "2024-01-01 12:00:01", "2024-12-31 23:59:59">>

InitTools == toolCall = NoToolCall /\ clock = 1

\* get_weather.invoke({'city': city})
CallGetWeather ==
    /\ \E city \in Cities, condition \in ConditionDraws, temp \in TempDraws :
         toolCall' = [tool |-> "get_weather", arg |-> city, outcome |-> "returned",
                      text |-> get_weather(city, condition, temp)]
    /\ UNCHANGED <<clock, configVars, roundVars, exampleVars>>

\* calculate.invoke({'expression': expression})
CallCalculate ==
    /\ \E expression \in Expressions :
         LET r == calculate(expression) IN
         toolCall' = [tool |-> "calculate", arg |-> expression, outcome |-> r.outcome,
                      text |-> r.text]
    /\ UNCHANGED <<clock, configVars, roundVars, exampleVars>>

\* timezone: str = "UTC"
DefaultTimezone == "UTC"

Timezones == {"UTC", "EST", "Asia/Tokyo", ""}

\* The get_time invocation before this one, when the last invocation was one
NoPrev == [arg |-> "", now |-> "", text |-> ""]

PrevTime ==
    IF toolCall.tool = "get_time"
    THEN [arg |-> toolCall.arg, now |-> toolCall.now, text |-> toolCall.text]
    ELSE NoPrev

\* get_time.invoke({'timezone': timezone}) and get_time.invoke({}): arg is None
\* when the argument is omitted
CallGetTime ==
    /\ \E timezone \in Timezones \cup {None} :
         LET tz == IF timezone = None THEN DefaultTimezone ELSE timezone IN
         toolCall' = [tool |-> "get_time", arg |-> timezone, outcome |-> "returned",
                      text |-> get_time(tz, Clocks[clock]),
                      now |-> Clocks[clock], prev |-> PrevTime]
    /\ UNCHANGED <<clock, configVars, roundVars, exampleVars>>

\* Time passes
Tick ==
    /\ clock < Len(Clocks)
    /\ clock' = clock + 1
    /\ UNCHANGED <<toolCall, configVars, roundVars, exampleVars>>

KnowledgeQueries ==
    {"LangChain", "What is Python?", "python with langchain", "AI and Python",
     "rain", "weather", ""}

\* search_knowledge.invoke({'query': query})
CallSearchKnowledge ==
    /\ \E query \in KnowledgeQueries :
         toolCall' = [tool |-> "search_knowledge", arg |-> query, outcome |-> "returned",
                      text |-> search_knowledge(query)]
    /\ UNCHANGED <<clock, configVars, roundVars, exampleVars>>

PaperTopics == {"AI", "quantum computing"}

\* Values of the int argument limit
Limits == {-6, -5, -1, 0, 1, 3, 5, 6, 100}

\* search_papers.invoke({'topic': topic, 'limit': limit}) and
\* search_papers.invoke({'topic': topic}): given is FALSE when limit is omitted
CallSearchPapers ==
    /\ \E topic \in PaperTopics, given \in BOOLEAN, l \in Limits :
         LET limit == IF given THEN l ELSE DefaultLimit IN
         toolCall' = [tool |-> "search_papers", arg |-> topic, given |-> given,
                      limit |-> limit, outcome |-> "returned",
                      text |-> search_papers(topic, limit)]
    /\ UNCHANGED <<clock, configVars, roundVars, exampleVars>>

OpinionTopics ==
    {"ai", "AI", "blockchain", "Blockchain", "quantum", "QUANTUM",
     "Quantum AI", "generative ai", "robotics", "default", ""}

\* get_expert_opinion.invoke({'topic': topic})
CallGetExpertOpinion ==
    /\ \E topic \in OpinionTopics :
         toolCall' = [tool |-> "get_expert_opinion", arg |-> topic, outcome |-> "returned",
                      text |-> get_expert_opinion(topic)]
    /\ UNCHANGED <<clock, configVars, roundVars, exampleVars>>

(***************************************************************************)
(* config.py: ModelConfig                                                  *)
(***************************************************************************)
\* Python truthiness of an Optional[str]: None and "" are falsy
Truthy(s) == s # None /\ s # ""

\* for provider in ["openai", "anthropic", "ollama"]
AllProviders == <<"openai", "anthropic", "ollama">>

\* temperature: float = 0.7, in tenths
DefaultTemperature == 7

\* ChatOpenAI(...), ChatAnthropic(...), ChatOllama(...): the SDK constructor
\* returns a handle, or raises when the environment makes it (ctorFails).
NoHandle == [cls |-> None, provider |-> None, api_key |-> None, temperature |-> 0]

Construct(cls, prov, key, temperature) ==
    IF prov \in ctorFails
    THEN [outcome |-> "raised", error |-> cls \o " constructor failed", handle |-> NoHandle]
    ELSE [outcome |-> "returned", error |-> "",
          handle |-> [cls |-> cls, provider |-> prov, api_key |-> key,
                      temperature |-> temperature]]

Raise(error) == [outcome |-> "raised", error |-> error, handle |-> NoHandle]

\* provider = provider or self.provider
EffectiveProvider(provider_arg) ==
    IF Truthy(provider_arg) THEN provider_arg ELSE provider

\* Mutant: the anthropic branch does not check its API key
get_model_unchecked_key(provider_arg, temperature) ==
    LET p == EffectiveProvider(provider_arg) IN
    CASE p = "openai" ->
            IF ~Truthy(openai_api_key)
            THEN Raise("OPENAI_API_KEY not set in environment")
            ELSE Construct("ChatOpenAI", p, openai_api_key, temperature)
      [] p = "anthropic" ->
            Construct("ChatAnthropic", p, anthropic_api_key, temperature)
      [] p = "ollama" ->
            Construct("ChatOllama", p, None, temperature)
      [] OTHER ->
            Raise("Unknown provider: " \o p)

\* ModelConfig.get_model(provider, temperature)
get_model(provider_arg, temperature) ==
    LET p == EffectiveProvider(provider_arg) IN
    CASE p = "openai" ->
            IF ~Truthy(openai_api_key)
            THEN Raise("OPENAI_API_KEY not set in environment")
            ELSE Construct("ChatOpenAI", p, openai_api_key, temperature)
      [] p = "anthropic" ->
            IF ~Truthy(anthropic_api_key)
            THEN Raise("ANTHROPIC_API_KEY not set in environment")
            ELSE Construct("ChatAnthropic", p, anthropic_api_key, temperature)
      [] p = "ollama" ->
            Construct("ChatOllama", p, None, temperature)
      [] OTHER ->
            Raise("Unknown provider: " \o p)

\* The provider arguments a caller passes to get_model
ProviderArgs ==
    {None, "", "openai", "anthropic", "ollama", "invalid_provider", "OpenAI"}

\* os.getenv("LLM_PROVIDER", "openai").lower()
ProviderSettings == {"openai", "anthropic", "ollama", "invalid_provider", ""}

\* os.getenv("OPENAI_API_KEY"), os.getenv("ANTHROPIC_API_KEY")
KeySettings == {None, "", "test-key"}

NoCall == [arg |-> None, outcome |-> "none", error |-> "", handle |-> NoHandle]

InitConfig ==
    /\ provider \in ProviderSettings
    /\ openai_api_key \in KeySettings
    /\ anthropic_api_key \in KeySettings
    /\ ctorFails \in SUBSET Range(AllProviders)
    /\ getModel = NoCall
    /\ gam_pc = "idle"
    /\ gam_i = 1
    /\ gam_models = <<>>
    /\ gam_tried = <<>>
    /\ gam_out = <<>>

\* A caller (a test, basic_chat) calls config.get_model(arg)
CallGetModel ==
    /\ gam_pc # "loop"
    /\ \E arg \in ProviderArgs :
         LET r == get_model(arg, DefaultTemperature) IN
         getModel' = [arg |-> arg, outcome |-> r.outcome, error |-> r.error,
                      handle |-> r.handle]
    /\ UNCHANGED <<provider, openai_api_key, anthropic_api_key, ctorFails,
                   gam_pc, gam_i, gam_models, gam_tried, gam_out>>
    /\ UNCHANGED <<toolVars, roundVars, exampleVars>>

\* get_all_models: models = {}
GetAllModelsBegin ==
    /\ gam_pc \in {"idle", "returned"}
    /\ gam_pc' = "loop"
    /\ gam_i' = 1
    /\ gam_models' = <<>>
    /\ gam_tried' = <<>>
    /\ gam_out' = <<>>
    /\ UNCHANGED <<provider, openai_api_key, anthropic_api_key, ctorFails, getModel>>
    /\ UNCHANGED <<toolVars, roundVars, exampleVars>>

\* Mutant: the assignment to models[provider] happens before get_model can raise
TryProviderAssignsFirst(p) ==
    LET r == get_model(p, DefaultTemperature) IN
    IF r.outcome = "returned"
    THEN [models |-> Append(gam_models, [name |-> p, handle |-> r.handle]),
          out    |-> Append(gam_out, [mark |-> "initialized", provider |-> p, error |-> ""])]
    ELSE [models |-> Append(gam_models, [name |-> p, handle |-> NoHandle]),
          out    |-> Append(gam_out, [mark |-> "failed", provider |-> p, error |-> r.error])]

\* One iteration of the for loop:
\*   try: models[provider] = self.get_model(provider); print(ok)
\*   except Exception as e: print(failed, e)
TryProvider(p) ==
    LET r == get_model(p, DefaultTemperature) IN
    IF r.outcome = "returned"
    THEN [models |-> Append(gam_models, [name |-> p, handle |-> r.handle]),
          out    |-> Append(gam_out, [mark |-> "initialized", provider |-> p, error |-> ""])]
    ELSE [models |-> gam_models,
          out    |-> Append(gam_out, [mark |-> "failed", provider |-> p, error |-> r.error])]

GetAllModelsTry ==
    /\ gam_pc = "loop"
    /\ gam_i <= Len(AllProviders)
    /\ LET p == AllProviders[gam_i]
           t == TryProvider(p) IN
       /\ gam_models' = t.models
       /\ gam_out' = t.out
       /\ gam_tried' = Append(gam_tried, p)
    /\ gam_i' = gam_i + 1
    /\ UNCHANGED <<provider, openai_api_key, anthropic_api_key, ctorFails, getModel, gam_pc>>
    /\ UNCHANGED <<toolVars, roundVars, exampleVars>>

\* return models
GetAllModelsReturn ==
    /\ gam_pc = "loop"
    /\ gam_i > Len(AllProviders)
    /\ gam_pc' = "returned"
    /\ UNCHANGED <<provider, openai_api_key, anthropic_api_key, ctorFails, getModel,
                   gam_i, gam_models, gam_tried, gam_out>>
    /\ UNCHANGED <<toolVars, roundVars, exampleVars>>

(***************************************************************************)
(* The tool-use round: what both loops share                               *)
(***************************************************************************)
\* The most tool requests one model response carries
MaxCalls == 2

\* An argument mapping is modelled by the value of the tool's one required
\* parameter, or Missing when the mapping lacks it.
Missing == "<missing>"

\* self.tools = [search_papers, get_statistics, get_expert_opinion]
ResearchTools == <<"search_papers", "get_statistics", "get_expert_opinion">>

\* tools = [get_weather, calculate, get_time, search_knowledge]
DemoTools == <<"get_weather", "calculate", "get_time", "search_knowledge">>

\* The names bound at module level of research_assistant.py
ResearchGlobals ==
    Range(ResearchTools) \cup
    {"Dict", "List", "Optional", "datetime", "BaseModel", "Field", "tool",
     "ChatPromptTemplate", "HumanMessage", "ToolMessage", "BaseChatModel",
     "PydanticOutputParser", "ResearchQuery", "ResearchResult",
     "MultiModelResearchAssistant", "demonstrate_research_assistant"}

\* The names bound at module level of tool_usage.py
DemoGlobals ==
    Range(DemoTools) \cup
    {"random", "json", "datetime", "Dict", "math", "tool", "HumanMessage",
     "ToolMessage", "BaseChatModel", "demonstrate_tool_usage"}

BoundTools(c) == IF c = "research" THEN Range(ResearchTools) ELSE Range(DemoTools)

ModuleGlobals(c) == IF c = "research" THEN ResearchGlobals ELSE DemoGlobals

\* tool_fn = globals()[tool_call['name']]
\*   "tool":     the name is bound to one of the module's tool objects
\*   "object":   the name is bound to another object of the module
\*   "KeyError": the name is not bound
Lookup(c, name) ==
    IF name \in BoundTools(c) THEN "tool"
    ELSE IF name \in ModuleGlobals(c) THEN "object"
    ELSE "KeyError"

\* The name of the required parameter of each tool
Param(name) ==
    CASE name \in Range(ResearchTools) -> "topic"
      [] name = "get_weather"          -> "city"
      [] name = "calculate"            -> "expression"
      [] name = "get_time"             -> "timezone"
      [] name = "search_knowledge"     -> "query"
      [] OTHER                         -> "arg"

\* str(tool_call['args'])
ArgsRepr(name, args) ==
    IF args = Missing THEN "{}"
    ELSE "{'" \o Param(name) \o "': '" \o args \o "'}"

\* What the environment supplies to one tool execution: the random draws and
\* the clock.
RoundEnvs ==
    { [condition |-> "Partly Cloudy", temp |-> TempHigh, stats |-> <<50, 80, 10, 5000>>,
       now |-> "2024-12-31 23:59:59"] }

Returned(text) == [outcome |-> "returned", text |-> text]

Raised(text) == [outcome |-> "raised", text |-> text]

\* tool_fn.invoke(args) on a tool object: the argument mapping is validated
\* against the tool's schema (a missing required parameter raises), then the
\* body runs; the tool layer catches nothing.
ToolInvoke(name, args, env) ==
    IF args = Missing /\ name # "get_time"
    THEN Raised("ValidationError: " \o Param(name) \o " field required")
    ELSE CASE name = "search_papers"      -> Returned(search_papers(args, DefaultLimit))
           [] name = "get_statistics"     -> Returned(get_statistics(args, env.stats))
           [] name = "get_expert_opinion" -> Returned(get_expert_opinion(args))
           [] name = "get_weather"        -> Returned(get_weather(args, env.condition, env.temp))
           [] name = "calculate"          -> calculate(args)
           [] name = "get_time"           ->
                Returned(get_time(IF args = Missing THEN "UTC" ELSE args, env.now))
           [] name = "search_knowledge"   -> Returned(search_knowledge(args))

\* tool_fn = globals()[tool_call['name']]; result = tool_fn.invoke(tool_call['args'])
Dispatch(c, tool_call, env) ==
    LET l == Lookup(c, tool_call.name) IN
    CASE l = "KeyError" -> Raised("KeyError: '" \o tool_call.name \o "'")
      [] l = "object"   -> Raised("AttributeError: '" \o tool_call.name \o "' has no attribute 'invoke'")
      [] OTHER          -> ToolInvoke(tool_call.name, tool_call.args, env)

\* Messages of the turn
HumanMessage(content) ==
    [type |-> "human", content |-> content, tool_calls |-> <<>>, tool_call_id |-> ""]

AIMessage(r) ==
    [type |-> "ai", content |-> r.content, tool_calls |-> r.tool_calls, tool_call_id |-> ""]

\* Mutant: every result carries the identifier of the first request
ToolMessageFirstId(content, id) ==
    [type |-> "tool", content |-> content, tool_calls |-> <<>>, tool_call_id |-> "call_1"]

\* ToolMessage(content=str(result), tool_call_id=tool_call['id'])
ToolMessage(content, id) ==
    [type |-> "tool", content |-> content, tool_calls |-> <<>>, tool_call_id |-> id]

\* The tool requests a model can put in a response, per loop: the bound tools
\* with a valid argument, one request lacking its required argument, a name
\* bound to a non-tool object of the module, and a name not bound at all.
Requests(c) ==
    IF c = "research"
    THEN { [name |-> "search_papers", args |-> "AI"],
           [name |-> "get_statistics", args |-> "AI"],
           [name |-> "get_expert_opinion", args |-> "quantum"],
           [name |-> "search_papers", args |-> Missing],
           [name |-> "ResearchQuery", args |-> "AI"],
           [name |-> "get_weather", args |-> "Paris"] }
    ELSE { [name |-> "get_weather", args |-> "Paris"],
           [name |-> "calculate", args |-> "2 + 2"],
           [name |-> "calculate", args |-> "invalid"],
           [name |-> "get_time", args |-> "Tokyo"],
           [name |-> "search_knowledge", args |-> "LangChain"],
           [name |-> "json", args |-> "x"] }

\* The provider's call identifier of the i-th request of a response
CallId(i) == "call_" \o ToString(i)

\* The lists of tool requests of one response, each request with its identifier
ToolCallLists(c) ==
    UNION { { [i \in 1..n |-> [name |-> f[i].name, args |-> f[i].args, id |-> CallId(i)]]
              : f \in [1..n -> Requests(c)] } : n \in 0..MaxCalls }

\* The texts of a final answer
FinalContents ==
    { "LLMs are useful.",
      "Findings:\n- first finding\n  - second finding\nDone.",
      "· a\n- b\n-c\n\n- d\n· e\n- f",
      "Winter data:\n- -5 degrees on average\n-" }

\* A first response: plain text, or tool requests
FirstResponses(c) ==
    { [content |-> t, tool_calls |-> <<>>] : t \in FinalContents } \cup
    { [content |-> "", tool_calls |-> l] : l \in ToolCallLists(c) \ {<<>>} }

\* A second response: plain text, or text with a further tool request
SecondResponses(c) ==
    { [content |-> t, tool_calls |-> <<>>] : t \in FinalContents } \cup
    { [content |-> "Findings:\n- more data is needed",
       tool_calls |-> <<[name |-> (IF c = "research" THEN ResearchTools ELSE DemoTools)[1],
                         args |-> "AI", id |-> CallId(1)]>>] }

NoResponse == [content |-> "", tool_calls |-> <<>>]

NoFault == [kind |-> "none", text |-> ""]

EmptyLog == [model_calls |-> <<>>, lookups |-> <<>>, executed |-> <<>>, printed |-> <<>>]

\* try: self.tool_models[name] = model.bind_tools(self.tools) / except: pass
\* The keys whose bind_tools does not raise, in the order of `models`
RECURSIVE BindTools(_, _)
BindTools(ms, ok) ==
    IF ms = <<>> THEN <<>>
    ELSE IF Head(ms) \in ok
         THEN <<Head(ms)>> \o BindTools(Tail(ms), ok)
         ELSE BindTools(Tail(ms), ok)

(***************************************************************************)
(* research_assistant.py: MultiModelResearchAssistant.research             *)
(***************************************************************************)
\* self.prompts: the template of each depth, with its fields filled in
PromptKeys == {"quick", "moderate", "deep"}

FormatPrompt(depth, topic, focus_areas) ==
    CASE depth = "quick" ->
            "Provide a brief overview of " \o topic \o ". Focus on: " \o focus_areas
      [] depth = "moderate" ->
            "Research " \o topic \o " comprehensively.\n"
            \o "            Focus areas: " \o focus_areas \o "\n"
            \o "            Use available tools to gather information.\n"
            \o "            Provide a balanced analysis."
      [] depth = "deep" ->
            "Conduct thorough research on " \o topic \o ".\n"
            \o "            Focus areas: " \o focus_areas \o "\n"
            \o "            Use all available tools to gather data, statistics, and expert opinions.\n"
            \o "            Provide a detailed analysis with multiple perspectives."

\* ", ".join(query.focus_areas) if query.focus_areas else "general overview"
FocusAreasStr(focus_areas) ==
    IF focus_areas # <<>> THEN Join(", ", focus_areas) ELSE "general overview"

\* Mutant: without a preferred provider the last tool-capable model is taken
SelectModelLast(model_name) ==
    IF Truthy(model_name) /\ model_name \in Range(tool_models)
    THEN [outcome |-> "selected", used |-> model_name]
    ELSE IF tool_models # <<>>
    THEN IF "openai" \in Range(tool_models)
         THEN [outcome |-> "selected", used |-> "openai"]
         ELSE IF "anthropic" \in Range(tool_models)
         THEN [outcome |-> "selected", used |-> "anthropic"]
         ELSE [outcome |-> "selected", used |-> tool_models[Len(tool_models)]]
    ELSE [outcome |-> "raised", used |-> None]

\* Lines 137-151: the model that runs the research
SelectModel(model_name) ==
    IF Truthy(model_name) /\ model_name \in Range(tool_models)
    THEN [outcome |-> "selected", used |-> model_name]
    ELSE IF tool_models # <<>>
    THEN IF "openai" \in Range(tool_models)
         THEN [outcome |-> "selected", used |-> "openai"]
         ELSE IF "anthropic" \in Range(tool_models)
         THEN [outcome |-> "selected", used |-> "anthropic"]
         ELSE [outcome |-> "selected", used |-> tool_models[1]]
    ELSE [outcome |-> "raised", used |-> None]

\* U+2022 cannot be written in a TLA+ string; U+00B7 stands for the bullet
Bullet == "·"

Whitespace == {" ", "\t", "\n", "\r"}

RECURSIVE Split(_, _)
\* s.split(sep), sep one character
Split(s, sep) ==
    IF ~Contains(s, sep) THEN <<s>>
    ELSE LET i == CHOOSE j \in 1..Len(s) :
                     /\ SubSeq(s, j, j) = sep
                     /\ \A k \in 1..(j - 1) : SubSeq(s, k, k) # sep
         IN  <<SubSeq(s, 1, i - 1)>> \o Split(SubSeq(s, i + 1, Len(s)), sep)

RECURSIVE LStripChars(_, _)
\* s.lstrip(chars): every leading character that is in chars is removed
LStripChars(s, chars) ==
    IF Len(s) > 0 /\ SubSeq(s, 1, 1) \in chars
    THEN LStripChars(SubSeq(s, 2, Len(s)), chars)
    ELSE s

RECURSIVE RStripChars(_, _)
RStripChars(s, chars) ==
    IF Len(s) > 0 /\ SubSeq(s, Len(s), Len(s)) \in chars
    THEN RStripChars(SubSeq(s, 1, Len(s) - 1), chars)
    ELSE s

\* s.strip()
Strip(s) == RStripChars(LStripChars(s, Whitespace), Whitespace)

\* [:5]
MaxFindings == 5

\* content[:500]
SummaryLimit == 500

RECURSIVE BulletLines(_)
\* [line.strip().lstrip('- •') for line in lines
\*  if line.strip() and (line.strip().startswith('-') or line.strip().startswith('•'))]
BulletLines(lines) ==
    IF lines = <<>> THEN <<>>
    ELSE LET t == Strip(Head(lines)) IN
         IF t # "" /\ (StartsWith(t, "-") \/ StartsWith(t, Bullet))
         THEN <<LStripChars(t, {"-", " ", Bullet})>> \o BulletLines(Tail(lines))
         ELSE BulletLines(Tail(lines))

\* Lines 190-196
KeyFindings(content) == SliceTo(BulletLines(Split(content, "\n")), MaxFindings)

\* Lines 199-207: the ResearchResult; confidence_score in hundredths
BuildResult(topic, content, srcs, used, now) ==
    [kind |-> "ResearchResult",
     topic |-> topic,
     summary |-> IF Len(content) > SummaryLimit
                 THEN SubSeq(content, 1, SummaryLimit) \o "..."
                 ELSE content,
     key_findings |-> IF KeyFindings(content) # <<>> THEN KeyFindings(content)
                      ELSE <<"Research completed">>,
     sources_consulted |-> IF srcs # <<>> THEN srcs ELSE <<"Direct model knowledge">>,
     confidence_score |-> IF srcs # <<>> THEN 85 ELSE 75,
     model_used |-> used,
     timestamp |-> now]

NoResult ==
    [kind |-> "none", topic |-> "", summary |-> "", key_findings |-> <<>>,
     sources_consulted |-> <<>>, confidence_score |-> 0, model_used |-> None,
     timestamp |-> ""]

\* The queries and model names a caller passes to research()
Queries ==
    { [topic |-> "AI Safety", depth |-> "quick", focus_areas |-> <<"alignment">>],
      [topic |-> "AI Safety", depth |-> "moderate", focus_areas |-> <<>>],
      [topic |-> "AI Safety", depth |-> "thorough", focus_areas |-> <<"alignment">>] }

ModelNameArgs == {None, "openai", "anthropic", "ollama", "test"}

NoQuery == [topic |-> "", depth |-> "", focus_areas |-> <<>>]

NoCallArgs == [query |-> NoQuery, model_name |-> None]

\* The dicts of models handed to the assistant and to the demo: what
\* get_all_models can return, and dicts with a model of another name
ModelDicts ==
    { <<>>, <<"openai">>, <<"ollama">>, <<"openai", "anthropic", "ollama">>,
      <<"test">>, <<"ollama", "test">>, <<"test", "ollama">> }

\* The state after MultiModelResearchAssistant(models)
InitRound ==
    /\ models \in ModelDicts
    /\ bindable \in SUBSET Range(models)
    /\ tool_models = BindTools(models, bindable)
    /\ ctx = "none"
    /\ pc = "idle"
    /\ call = NoCallArgs
    /\ used_model = None
    /\ messages = <<>>
    /\ response = NoResponse
    /\ tc_i = 1
    /\ sources = <<>>
    /\ log = EmptyLog
    /\ result = NoResult
    /\ fault = NoFault
    /\ demo_pos = [section |-> "none", q |-> 0, m |-> 0]

\* Mutant: a depth without template gets the 'moderate' template
ResearchBeginDefaultTemplate ==
    /\ pc = "idle"
    /\ \E q \in Queries, mn \in ModelNameArgs :
         LET sel == SelectModel(mn)
             depth == IF q.depth \in PromptKeys THEN q.depth ELSE "moderate"
         IN
         /\ call' = [query |-> q, model_name |-> mn]
         /\ IF sel.outcome = "raised"
            THEN /\ pc' = "raised"
                 /\ fault' = [kind |-> "ValueError", text |-> "No tool-capable models available"]
                 /\ used_model' = None
                 /\ messages' = <<>>
            ELSE /\ pc' = "first_call"
                 /\ fault' = NoFault
                 /\ used_model' = sel.used
                 /\ messages' = <<HumanMessage(FormatPrompt(depth, q.topic,
                                                FocusAreasStr(q.focus_areas)))>>
    /\ ctx' = "research"
    /\ response' = NoResponse
    /\ tc_i' = 1
    /\ sources' = <<>>
    /\ log' = EmptyLog
    /\ result' = NoResult
    /\ UNCHANGED <<models, bindable, tool_models, demo_pos>>
    /\ UNCHANGED <<toolVars, configVars, exampleVars>>

\* research(query, model_name) up to its first await: lines 136-162
ResearchBegin ==
    /\ pc = "idle"
    /\ \E q \in Queries, mn \in ModelNameArgs :
         LET sel == SelectModel(mn) IN
         /\ call' = [query |-> q, model_name |-> mn]
         /\ IF sel.outcome = "raised"
            THEN /\ pc' = "raised"
                 /\ fault' = [kind |-> "ValueError", text |-> "No tool-capable models available"]
                 /\ used_model' = None
                 /\ messages' = <<>>
            ELSE IF q.depth \notin PromptKeys
            THEN /\ pc' = "raised"
                 /\ fault' = [kind |-> "KeyError", text |-> q.depth]
                 /\ used_model' = sel.used
                 /\ messages' = <<>>
            ELSE /\ pc' = "first_call"
                 /\ fault' = NoFault
                 /\ used_model' = sel.used
                 /\ messages' = <<HumanMessage(FormatPrompt(q.depth, q.topic,
                                                FocusAreasStr(q.focus_areas)))>>
    /\ ctx' = "research"
    /\ response' = NoResponse
    /\ tc_i' = 1
    /\ sources' = <<>>
    /\ log' = EmptyLog
    /\ result' = NoResult
    /\ UNCHANGED <<models, bindable, tool_models, demo_pos>>
    /\ UNCHANGED <<toolVars, configVars, exampleVars>>

\* What datetime.now().isoformat() gives
Timestamps == {"2024-01-01T00:00:00"}

\* Mutant: a faulting first call is issued again
ResearchFirstCallRetried ==
    /\ ctx = "research" /\ pc = "first_call"
    /\ Len(log.model_calls) < 2
    /\ log' = [log EXCEPT !.model_calls = Append(@, [call |-> "first", model |-> used_model])]
    /\ pc' = "first_call"
    /\ fault' = [kind |-> "ModelCallFailed", text |-> "first"]
    /\ UNCHANGED <<models, bindable, tool_models, ctx, call, used_model, messages,
                   response, tc_i, sources, result, demo_pos>>
    /\ UNCHANGED <<toolVars, configVars, exampleVars>>

\* response = await model.ainvoke(messages), raising: the fault leaves research()
ResearchFirstCallFails ==
    /\ ctx = "research" /\ pc = "first_call"
    /\ log' = [log EXCEPT !.model_calls = Append(@, [call |-> "first", model |-> used_model])]
    /\ pc' = "raised"
    /\ fault' = [kind |-> "ModelCallFailed", text |-> "first"]
    /\ UNCHANGED <<models, bindable, tool_models, ctx, call, used_model, messages,
                   response, tc_i, sources, result, demo_pos>>
    /\ UNCHANGED <<toolVars, configVars, exampleVars>>

\* Lines 165-172 and, without tool requests, 189-207
ResearchFirstCall ==
    /\ ctx = "research" /\ pc = "first_call"
    /\ \E r \in FirstResponses("research"), now \in Timestamps :
         /\ response' = r
         /\ messages' = Append(messages, AIMessage(r))
         /\ IF r.tool_calls # <<>>
            THEN /\ pc' = "tools"
                 /\ result' = result
            ELSE /\ pc' = "returned"
                 /\ result' = BuildResult(call.query.topic, r.content, <<>>, used_model, now)
    /\ log' = [log EXCEPT !.model_calls = Append(@, [call |-> "first", model |-> used_model])]
    /\ sources' = <<>>
    /\ tc_i' = 1
    /\ UNCHANGED <<models, bindable, tool_models, ctx, call, used_model, fault, demo_pos>>
    /\ UNCHANGED <<toolVars, configVars, exampleVars>>

\* One iteration of the for loop, lines 173-184; after the last one the
\* follow-up call is due
ResearchExecTool ==
    /\ ctx = "research" /\ pc = "tools"
    /\ tc_i <= Len(response.tool_calls)
    /\ \E env \in RoundEnvs :
         LET tool_call == response.tool_calls[tc_i]
             d == Dispatch("research", tool_call, env)
         IN
         /\ sources' = Append(sources,
                tool_call.name \o "(" \o ArgsRepr(tool_call.name, tool_call.args) \o ")")
         /\ IF d.outcome = "raised"
            THEN /\ pc' = "raised"
                 /\ fault' = [kind |-> "ToolFault", text |-> d.text]
                 /\ messages' = messages
                 /\ tc_i' = tc_i
                 /\ log' = [log EXCEPT !.lookups = Append(@,
                              [name |-> tool_call.name, found |-> Lookup("research", tool_call.name)])]
            ELSE /\ pc' = IF tc_i = Len(response.tool_calls) THEN "follow_up" ELSE "tools"
                 /\ fault' = fault
                 /\ messages' = Append(messages, ToolMessage(d.text, tool_call.id))
                 /\ tc_i' = tc_i + 1
                 /\ log' = [log EXCEPT
                              !.lookups = Append(@,
                                 [name |-> tool_call.name, found |-> Lookup("research", tool_call.name)]),
                              !.executed = Append(@, [name |-> tool_call.name, id |-> tool_call.id])]
    /\ UNCHANGED <<models, bindable, tool_models, ctx, call, used_model, response,
                   result, demo_pos>>
    /\ UNCHANGED <<toolVars, configVars, exampleVars>>

\* response = await model.ainvoke(messages), line 187, raising
ResearchFollowUpFails ==
    /\ ctx = "research" /\ pc = "follow_up"
    /\ log' = [log EXCEPT !.model_calls = Append(@, [call |-> "follow_up", model |-> used_model])]
    /\ pc' = "raised"
    /\ fault' = [kind |-> "ModelCallFailed", text |-> "follow_up"]
    /\ UNCHANGED <<models, bindable, tool_models, ctx, call, used_model, messages,
                   response, tc_i, sources, result, demo_pos>>
    /\ UNCHANGED <<toolVars, configVars, exampleVars>>

\* Mutant: tool requests of the second response start another round
ResearchFollowUpRecursive ==
    /\ ctx = "research" /\ pc = "follow_up"
    /\ \E r \in SecondResponses("research"), now \in Timestamps :
         /\ response' = r
         /\ IF r.tool_calls # <<>> /\ Len(log.model_calls) < 3
            THEN /\ pc' = "tools"
                 /\ tc_i' = 1
                 /\ result' = result
            ELSE /\ pc' = "returned"
                 /\ tc_i' = tc_i
                 /\ result' = BuildResult(call.query.topic, r.content, sources, used_model, now)
    /\ log' = [log EXCEPT !.model_calls = Append(@, [call |-> "follow_up", model |-> used_model])]
    /\ UNCHANGED <<models, bindable, tool_models, ctx, call, used_model, messages,
                   sources, fault, demo_pos>>
    /\ UNCHANGED <<toolVars, configVars, exampleVars>>

\* Lines 187-207: the second response is the final one
ResearchFollowUp ==
    /\ ctx = "research" /\ pc = "follow_up"
    /\ \E r \in SecondResponses("research"), now \in Timestamps :
         /\ response' = r
         /\ result' = BuildResult(call.query.topic, r.content, sources, used_model, now)
    /\ log' = [log EXCEPT !.model_calls = Append(@, [call |-> "follow_up", model |-> used_model])]
    /\ pc' = "returned"
    /\ UNCHANGED <<models, bindable, tool_models, ctx, call, used_model, messages,
                   tc_i, sources, fault, demo_pos>>
    /\ UNCHANGED <<toolVars, configVars, exampleVars>>

(***************************************************************************)
(* tool_usage.py: demonstrate_tool_usage                                   *)
(***************************************************************************)
test_queries ==
    << "What's the weather in Paris?",
       "Calculate the area of a circle with radius 5 (use pi)",
       "What time is it in Tokyo?",
       "Tell me about LangChain" >>

complex_query == "What's the weather in London and New York, and what's 15% of 847?"

\* The query of the round at demo_pos
DemoQuery == IF demo_pos.section = "simple" THEN test_queries[demo_pos.q] ELSE complex_query

\* print(...)
Printed(kind, text) == [kind |-> kind, text |-> text]

\* response.content[:100]
DirectLimit == 100

\* Lines 91-110, and the start of the first round
DemoBegin ==
    /\ pc = "idle"
    /\ ctx' = "demo"
    /\ tool_models' = BindTools(models, bindable)
    /\ IF tool_models' = <<>>
       THEN /\ pc' = "demo_done"
            /\ demo_pos' = [section |-> "none", q |-> 0, m |-> 0]
            /\ used_model' = None
       ELSE /\ pc' = "first_call"
            /\ demo_pos' = [section |-> "simple", q |-> 1, m |-> 1]
            /\ used_model' = tool_models'[1]
    /\ call' = NoCallArgs
    /\ messages' = <<>>
    /\ response' = NoResponse
    /\ tc_i' = 1
    /\ sources' = <<>>
    /\ log' = EmptyLog
    /\ result' = NoResult
    /\ fault' = NoFault
    /\ UNCHANGED <<models, bindable>>
    /\ UNCHANGED <<toolVars, configVars, exampleVars>>

\* response = await model.ainvoke(query) raising: except Exception prints it
DemoFirstCallFails ==
    /\ ctx = "demo" /\ pc = "first_call"
    /\ log' = [log EXCEPT !.model_calls = Append(@, [call |-> "first", model |-> used_model]),
                          !.printed = Append(@, Printed("Error", "ModelCallFailed"))]
    /\ fault' = [kind |-> "ModelCallFailed", text |-> "first"]
    /\ pc' = "round_done"
    /\ UNCHANGED <<models, bindable, tool_models, ctx, call, used_model, messages,
                   response, tc_i, sources, result, demo_pos>>
    /\ UNCHANGED <<toolVars, configVars, exampleVars>>

\* Lines 130-136 and 154-155 (simple), 170-175 (multi)
DemoFirstCall ==
    /\ ctx = "demo" /\ pc = "first_call"
    /\ \E r \in FirstResponses("demo") :
         /\ response' = r
         /\ IF r.tool_calls # <<>>
            THEN /\ messages' = <<HumanMessage(DemoQuery), AIMessage(r)>>
                 /\ pc' = "tools"
                 /\ log' = [log EXCEPT
                      !.model_calls = Append(@, [call |-> "first", model |-> used_model]),
                      !.printed = Append(@, Printed("Tools requested", ToString(Len(r.tool_calls))))]
            ELSE /\ messages' = messages
                 /\ pc' = "round_done"
                 /\ log' = [log EXCEPT
                      !.model_calls = Append(@, [call |-> "first", model |-> used_model]),
                      !.printed = IF demo_pos.section = "simple"
                                  THEN Append(@, Printed("Direct response",
                                         SliceTo(r.content, DirectLimit) \o "..."))
                                  ELSE @]
    /\ tc_i' = 1
    /\ UNCHANGED <<models, bindable, tool_models, ctx, call, used_model, sources,
                   result, fault, demo_pos>>
    /\ UNCHANGED <<toolVars, configVars, exampleVars>>

\* One iteration of the for loop, lines 138-149 (simple), 178-185 (multi);
\* an exception is caught by the round's except Exception
DemoExecTool ==
    /\ ctx = "demo" /\ pc = "tools"
    /\ tc_i <= Len(response.tool_calls)
    /\ \E env \in RoundEnvs :
         LET tool_call == response.tool_calls[tc_i]
             d == Dispatch("demo", tool_call, env)
         IN
         IF d.outcome = "raised"
         THEN /\ pc' = "round_done"
              /\ fault' = [kind |-> "ToolFault", text |-> d.text]
              /\ messages' = messages
              /\ tc_i' = tc_i
              /\ log' = [log EXCEPT
                           !.lookups = Append(@,
                              [name |-> tool_call.name, found |-> Lookup("demo", tool_call.name)]),
                           !.printed = Append(@, Printed("Error", d.text))]
         ELSE /\ pc' = IF tc_i = Len(response.tool_calls) THEN "follow_up" ELSE "tools"
              /\ fault' = fault
              /\ messages' = Append(messages, ToolMessage(d.text, tool_call.id))
              /\ tc_i' = tc_i + 1
              /\ log' = [log EXCEPT
                           !.lookups = Append(@,
                              [name |-> tool_call.name, found |-> Lookup("demo", tool_call.name)]),
                           !.executed = Append(@, [name |-> tool_call.name, id |-> tool_call.id])]
    /\ UNCHANGED <<models, bindable, tool_models, ctx, call, used_model, response,
                   sources, result, demo_pos>>
    /\ UNCHANGED <<toolVars, configVars, exampleVars>>

\* final_response = await model.ainvoke(messages) raising
DemoFollowUpFails ==
    /\ ctx = "demo" /\ pc = "follow_up"
    /\ log' = [log EXCEPT !.model_calls = Append(@, [call |-> "follow_up", model |-> used_model]),
                          !.printed = Append(@, Printed("Error", "ModelCallFailed"))]
    /\ fault' = [kind |-> "ModelCallFailed", text |-> "follow_up"]
    /\ pc' = "round_done"
    /\ UNCHANGED <<models, bindable, tool_models, ctx, call, used_model, messages,
                   response, tc_i, sources, result, demo_pos>>
    /\ UNCHANGED <<toolVars, configVars, exampleVars>>

\* Lines 152-153 (simple), 188-189 (multi): the answer is printed
DemoFollowUp ==
    /\ ctx = "demo" /\ pc = "follow_up"
    /\ \E r \in SecondResponses("demo") :
         log' = [log EXCEPT
                   !.model_calls = Append(@, [call |-> "follow_up", model |-> used_model]),
                   !.printed = Append(@, Printed("Final answer", r.content))]
    /\ pc' = "round_done"
    /\ UNCHANGED <<models, bindable, tool_models, ctx, call, used_model, messages,
                   response, tc_i, sources, result, fault, demo_pos>>
    /\ UNCHANGED <<toolVars, configVars, exampleVars>>

\* The position after demo_pos in the nested for loops: every query with every
\* tool-capable model, then the complex query with every tool-capable model
NextDemoPos ==
    IF demo_pos.m < Len(tool_models)
    THEN [demo_pos EXCEPT !.m = @ + 1]
    ELSE IF demo_pos.section = "simple" /\ demo_pos.q < Len(test_queries)
    THEN [section |-> "simple", q |-> demo_pos.q + 1, m |-> 1]
    ELSE IF demo_pos.section = "simple"
    THEN [section |-> "multi", q |-> 0, m |-> 1]
    ELSE [section |-> "end", q |-> 0, m |-> 0]

\* The next iteration of the loops; after the last one, line 195
DemoNextRound ==
    /\ ctx = "demo" /\ pc = "round_done"
    /\ demo_pos' = NextDemoPos
    /\ IF NextDemoPos.section = "end"
       THEN /\ pc' = IF Len(tool_models) < Len(models) THEN "fallback" ELSE "demo_done"
            /\ used_model' = used_model
       ELSE /\ pc' = "first_call"
            /\ used_model' = tool_models[NextDemoPos.m]
    /\ messages' = <<>>
    /\ response' = NoResponse
    /\ tc_i' = 1
    /\ log' = EmptyLog
    /\ fault' = NoFault
    /\ UNCHANGED <<models, bindable, tool_models, ctx, call, sources, result>>
    /\ UNCHANGED <<toolVars, configVars, exampleVars>>

\* list(non_tool_models.items())[0]
FirstNonToolModel ==
    models[CHOOSE i \in 1..Len(models) :
              /\ models[i] \notin Range(tool_models)
              /\ \A j \in 1..(i - 1) : models[j] \in Range(tool_models)]

\* Lines 195-244: one call of a model without tool support with the structured
\* prompt; a parsed get_weather request is executed directly
DemoFallback ==
    /\ ctx = "demo" /\ pc = "fallback"
    /\ \E outcome \in {"fault", "no_json", "bad_json", "other_tool", "get_weather"},
          city \in {"Berlin", "Paris"}, env \in RoundEnvs :
         /\ log' = [log EXCEPT
              !.model_calls = Append(@, [call |-> "fallback", model |-> FirstNonToolModel]),
              !.printed =
                 CASE outcome = "fault"       -> Append(@, Printed("Fallback error", "ModelCallFailed"))
                   [] outcome = "no_json"     -> Append(@, Printed("Response", ""))
                   [] outcome = "bad_json"    ->
                        Append(Append(@, Printed("Response", "")),
                               Printed("Could not parse structured response", ""))
                   [] outcome = "other_tool"  ->
                        Append(Append(@, Printed("Response", "")),
                               Printed("Parsed tool request", "calculate"))
                   [] outcome = "get_weather" ->
                        Append(Append(Append(@, Printed("Response", "")),
                               Printed("Parsed tool request", "get_weather")),
                               Printed("Tool result", get_weather(city, env.condition, env.temp)))]
    /\ pc' = "demo_done"
    /\ UNCHANGED <<models, bindable, tool_models, ctx, call, used_model, messages,
                   response, tc_i, sources, result, fault, demo_pos>>
    /\ UNCHANGED <<toolVars, configVars, exampleVars>>

(***************************************************************************)
(* structured_outputs.py, research_assistant.py: the record schemas        *)
(***************************************************************************)
\* Field values: a str, an int, a float (n in hundredths), a list of str, None
StrV(x) == [t |-> "str", s |-> x, n |-> 0, l |-> <<>>]

IntV(x) == [t |-> "int", s |-> "", n |-> x, l |-> <<>>]

FloatV(x) == [t |-> "float", s |-> "", n |-> x, l |-> <<>>]

ListV(x) == [t |-> "list", s |-> "", n |-> 0, l |-> x]

NoneV == [t |-> "none", s |-> "", n |-> 0, l |-> <<>>]

\* A declared field: a required one, one with a default, one with ge and le
Required(name, type) ==
    [name |-> name, type |-> type, required |-> TRUE, default |-> NoneV,
     bounded |-> FALSE, ge |-> 0, le |-> 0]

Defaulted(name, type, default) ==
    [name |-> name, type |-> type, required |-> FALSE, default |-> default,
     bounded |-> FALSE, ge |-> 0, le |-> 0]

Bounded(name, type, ge, le) ==
    [name |-> name, type |-> type, required |-> TRUE, default |-> NoneV,
     bounded |-> TRUE, ge |-> ge, le |-> le]

\* The field declarations of the four BaseModel classes, in order
Fields(schema) ==
    CASE schema = "Person" ->
            << Required("name", "str"), Required("age", "int"),
               Required("occupation", "str"), Required("skills", "list") >>
      [] schema = "CompanyInfo" ->
            << Required("name", "str"), Required("industry", "str"),
               Required("founded_year", "int"), Required("headquarters", "str"),
               Required("key_products", "list"),
               Defaulted("employee_count", "optional_int", NoneV) >>
      [] schema = "ResearchQuery" ->
            << Required("topic", "str"),
               Defaulted("depth", "str", StrV("moderate")),
               Defaulted("focus_areas", "list", ListV(<<>>)) >>
      [] schema = "ResearchResult" ->
            << Required("topic", "str"), Required("summary", "str"),
               Required("key_findings", "list"), Required("sources_consulted", "list"),
               Bounded("confidence_score", "float", 0, 100),
               Required("model_used", "str"), Required("timestamp", "str") >>

SchemaNames == {"Person", "CompanyInfo", "ResearchQuery", "ResearchResult"}

Digits == "0123456789"

\* A non-empty text of decimal digits
IsNumeric(s) ==
    Len(s) > 0 /\ \A i \in 1..Len(s) : Contains(Digits, SubSeq(s, i, i))

DigitValue(c) == (CHOOSE i \in 1..Len(Digits) : SubSeq(Digits, i, i) = c) - 1

RECURSIVE ParseInt(_)
\* int(s) for a text of decimal digits
ParseInt(s) ==
    IF Len(s) = 0 THEN 0
    ELSE ParseInt(SubSeq(s, 1, Len(s) - 1)) * 10 + DigitValue(SubSeq(s, Len(s), Len(s)))

\* Validation of one value against a declared type, as BaseModel does it: a
\* value of the declared type is kept; a numeric text given for a number and
\* an int given for a float are converted; anything else is refused.
Coerce(type, v) ==
    CASE type = "str"  -> [ok |-> v.t = "str", v |-> v]
      [] type = "list" -> [ok |-> v.t = "list", v |-> v]
      [] type = "int"  ->
            IF v.t = "int" THEN [ok |-> TRUE, v |-> v]
            ELSE IF v.t = "str" /\ IsNumeric(v.s) THEN [ok |-> TRUE, v |-> IntV(ParseInt(v.s))]
            ELSE [ok |-> FALSE, v |-> v]
      [] type = "optional_int" ->
            IF v.t \in {"int", "none"} THEN [ok |-> TRUE, v |-> v]
            ELSE IF v.t = "str" /\ IsNumeric(v.s) THEN [ok |-> TRUE, v |-> IntV(ParseInt(v.s))]
            ELSE [ok |-> FALSE, v |-> v]
      [] type = "float" ->
            IF v.t = "float" THEN [ok |-> TRUE, v |-> v]
            ELSE IF v.t = "int" THEN [ok |-> TRUE, v |-> FloatV(v.n * 100)]
            ELSE IF v.t = "str" /\ IsNumeric(v.s)
                 THEN [ok |-> TRUE, v |-> FloatV(ParseInt(v.s) * 100)]
            ELSE [ok |-> FALSE, v |-> v]

\* One declared field against the given fields
FieldResult(f, fields) ==
    IF f.name \in DOMAIN fields
    THEN LET c == Coerce(f.type, fields[f.name]) IN
         IF c.ok /\ f.bounded /\ (c.v.n < f.ge \/ c.v.n > f.le)
         THEN [ok |-> FALSE, v |-> c.v]
         ELSE c
    ELSE [ok |-> ~f.required, v |-> f.default]

NoRecord == [name \in {} |-> NoneV]

\* Mutant: the bounds of a field are not enforced
ValidateUnbounded(schema, fields) ==
    LET fs == Fields(schema)
        Res(i) == IF fs[i].name \in DOMAIN fields
                  THEN Coerce(fs[i].type, fields[fs[i].name])
                  ELSE [ok |-> ~fs[i].required, v |-> fs[i].default]
    IN  IF \A i \in 1..Len(fs) : Res(i).ok
        THEN [outcome |-> "record",
              record |-> [name \in { fs[i].name : i \in 1..Len(fs) } |->
                            Res(CHOOSE i \in 1..Len(fs) : fs[i].name = name).v]]
        ELSE [outcome |-> "ValidationError", record |-> NoRecord]

\* Schema(**fields): the record, or ValidationError and no record
Validate(schema, fields) ==
    LET fs == Fields(schema)
        Res(i) == FieldResult(fs[i], fields)
    IN  IF \A i \in 1..Len(fs) : Res(i).ok
        THEN [outcome |-> "record",
              record |-> [name \in { fs[i].name : i \in 1..Len(fs) } |->
                            Res(CHOOSE i \in 1..Len(fs) : fs[i].name = name).v]]
        ELSE [outcome |-> "ValidationError", record |-> NoRecord]

\* The field values the tests construct the records from
BaseFields(schema) ==
    CASE schema = "Person" ->
            [name |-> StrV("John Doe"), age |-> IntV(30),
             occupation |-> StrV("Engineer"), skills |-> ListV(<<"Python", "AI">>)]
      [] schema = "CompanyInfo" ->
            [name |-> StrV("TechCorp"), industry |-> StrV("Technology"),
             founded_year |-> IntV(2020), headquarters |-> StrV("San Francisco"),
             key_products |-> ListV(<<"AI Platform">>)]
      [] schema = "ResearchQuery" ->
            [topic |-> StrV("AI Safety")]
      [] schema = "ResearchResult" ->
            [topic |-> StrV("AI Safety"), summary |-> StrV("Research summary"),
             key_findings |-> ListV(<<"Finding 1", "Finding 2">>),
             sources_consulted |-> ListV(<<"source1", "source2">>),
             confidence_score |-> FloatV(85), model_used |-> StrV("openai"),
             timestamp |-> StrV("2024-01-01T00:00:00")]

\* Other values given for a field of a declared type
OtherValues(type) ==
    CASE type = "str"  -> {StrV(""), StrV("deep"), NoneV, ListV(<<"a">>)}
      [] type = "list" -> {ListV(<<>>), ListV(<<"alignment", "robustness">>), StrV("a"), NoneV}
      [] type = "int"  -> {IntV(0), IntV(-1), StrV("30"), StrV("thirty"), NoneV}
      [] type = "optional_int" -> {IntV(500), NoneV, StrV("500"), StrV("hundreds")}
      [] type = "float" ->
            {FloatV(0), FloatV(100), FloatV(101), FloatV(-1), FloatV(150),
             IntV(0), IntV(1), IntV(2), StrV("high"), NoneV}

\* fields with the value of one key set
WithField(fields, name, v) ==
    [k \in DOMAIN fields \cup {name} |-> IF k = name THEN v ELSE fields[k]]

\* fields without one key
WithoutField(fields, name) ==
    [k \in DOMAIN fields \ {name} |-> fields[k]]

\* The field sets a record of the schema is constructed from
Inputs(schema) ==
    LET fs == Fields(schema)
        base == BaseFields(schema)
    IN  {base}
        \cup { WithoutField(base, fs[i].name) : i \in 1..Len(fs) }
        \cup UNION { { WithField(base, fs[i].name, v) : v \in OtherValues(fs[i].type) } :
                     i \in 1..Len(fs) }

NoOutcome == [outcome |-> "none", record |-> NoRecord]

NoValidation ==
    [schema |-> None, fields |-> NoRecord, outcome |-> "none", record |-> NoRecord,
     again |-> NoOutcome]

IdleSchema == validation = NoValidation

\* Schema(**fields)
ConstructRecord ==
    /\ \E schema \in SchemaNames :
         \E fields \in Inputs(schema) :
            LET r == Validate(schema, fields) IN
            validation' = [schema |-> schema, fields |-> fields, outcome |-> r.outcome,
                           record |-> r.record, again |-> NoOutcome]
    /\ UNCHANGED notSchemaVars

\* Schema(**record.model_dump()): the fields of a record validated again
ValidateAgain ==
    /\ validation.outcome = "record"
    /\ validation.again = NoOutcome
    /\ validation' = [validation EXCEPT
                        !.again = Validate(validation.schema, validation.record)]
    /\ UNCHANGED notSchemaVars

(***************************************************************************)
(* basic_chat.py: demonstrate_basic_chat                                   *)
(***************************************************************************)
\* for temp in [0.1, 0.7, 1.2], in hundredths
Temperatures == <<10, 70, 120>>

\* The dicts of models given to the demonstrations
ChatModelDicts == { <<>>, <<"test">>, <<"openai", "ollama">> }

\* The loop iterations of the function for a dict of models, in program order:
\* lines 19-25, lines 30-47 (temp outer, model inner), lines 53-60
ChatPlan(ms) ==
    [i \in 1..Len(ms) |-> [section |-> "chat", temp |-> 0, name |-> ms[i]]]
    \o [k \in 1..(Len(Temperatures) * Len(ms)) |->
          [section |-> "temperature",
           temp |-> Temperatures[((k - 1) \div Len(ms)) + 1],
           name |-> ms[((k - 1) % Len(ms)) + 1]]]
    \o [i \in 1..Len(ms) |-> [section |-> "streaming", temp |-> 0, name |-> ms[i]]]

IdleChat ==
    /\ chat_models = <<>>
    /\ chat_temp = {}
    /\ chat_pc = "idle"
    /\ chat_i = 1
    /\ chat_log = <<>>

\* await demonstrate_basic_chat(models)
ChatBegin ==
    /\ chat_pc = "idle"
    /\ \E ms \in ChatModelDicts : \E withTemp \in SUBSET Range(ms) :
         /\ chat_models' = ms
         /\ chat_temp' = withTemp
    /\ chat_pc' = "running"
    /\ chat_i' = 1
    /\ chat_log' = <<>>
    /\ UNCHANGED notChatVars

\* One iteration that ran: the operations called in order, the one that
\* faulted ("none" when none did) and the line printed for the fault
Ran(it, called, failed, report) ==
    [section |-> it.section, temp |-> it.temp, name |-> it.name,
     called |-> called, failed |-> failed, report |-> report]

\* Mutant: a fault of model.invoke leaves the function
ChatInvokeUncaught ==
    /\ chat_pc = "running"
    /\ chat_i <= Len(ChatPlan(chat_models))
    /\ ChatPlan(chat_models)[chat_i].section = "chat"
    /\ LET it == ChatPlan(chat_models)[chat_i] IN
       \E ok \in BOOLEAN :
          /\ chat_log' = Append(chat_log,
                Ran(it, <<"invoke">>, IF ok THEN "none" ELSE "invoke", ""))
          /\ chat_pc' = IF ok THEN "running" ELSE "raised"
    /\ chat_i' = chat_i + 1
    /\ UNCHANGED <<chat_models, chat_temp>>
    /\ UNCHANGED notChatVars

\* Lines 19-25: response = model.invoke(messages) inside try / except Exception
ChatInvoke ==
    /\ chat_pc = "running"
    /\ chat_i <= Len(ChatPlan(chat_models))
    /\ ChatPlan(chat_models)[chat_i].section = "chat"
    /\ LET it == ChatPlan(chat_models)[chat_i] IN
       \E ok \in BOOLEAN :
          chat_log' = Append(chat_log,
                IF ok THEN Ran(it, <<"invoke">>, "none", "")
                ELSE Ran(it, <<"invoke">>, "invoke", "Error: "))
    /\ chat_i' = chat_i + 1
    /\ UNCHANGED <<chat_models, chat_temp, chat_pc>>
    /\ UNCHANGED notChatVars

\* Lines 33-47: the model is made again with the temperature when it has the
\* attribute (config.get_model raises for a name that is no provider, and may
\* raise for a provider), then invoke; both inside one try / except Exception
ChatTemperature ==
    /\ chat_pc = "running"
    /\ chat_i <= Len(ChatPlan(chat_models))
    /\ ChatPlan(chat_models)[chat_i].section = "temperature"
    /\ LET it == ChatPlan(chat_models)[chat_i] IN
       IF it.name \in chat_temp
       THEN \E made \in (IF it.name \in Range(AllProviders) THEN BOOLEAN ELSE {FALSE}),
               ok \in BOOLEAN :
               chat_log' = Append(chat_log,
                  IF ~made THEN Ran(it, <<"get_model">>, "get_model", "Error with " \o it.name)
                  ELSE IF ~ok THEN Ran(it, <<"get_model", "invoke">>, "invoke",
                                       "Error with " \o it.name)
                  ELSE Ran(it, <<"get_model", "invoke">>, "none", ""))
       ELSE \E ok \in BOOLEAN :
               chat_log' = Append(chat_log,
                  IF ok THEN Ran(it, <<"invoke">>, "none", "")
                  ELSE Ran(it, <<"invoke">>, "invoke", "Error with " \o it.name))
    /\ chat_i' = chat_i + 1
    /\ UNCHANGED <<chat_models, chat_temp, chat_pc>>
    /\ UNCHANGED notChatVars

\* Lines 53-60: async for chunk in model.astream(...) inside try / except
\* Exception; the fault may come before or after chunks were printed
ChatStream ==
    /\ chat_pc = "running"
    /\ chat_i <= Len(ChatPlan(chat_models))
    /\ ChatPlan(chat_models)[chat_i].section = "streaming"
    /\ LET it == ChatPlan(chat_models)[chat_i] IN
       \E ok \in BOOLEAN :
          chat_log' = Append(chat_log,
                IF ok THEN Ran(it, <<"astream">>, "none", "")
                ELSE Ran(it, <<"astream">>, "astream", "Streaming not supported or error: "))
    /\ chat_i' = chat_i + 1
    /\ UNCHANGED <<chat_models, chat_temp, chat_pc>>
    /\ UNCHANGED notChatVars

\* The end of the function body
ChatReturn ==
    /\ chat_pc = "running"
    /\ chat_i = Len(ChatPlan(chat_models)) + 1
    /\ chat_pc' = "returned"
    /\ UNCHANGED <<chat_models, chat_temp, chat_i, chat_log>>
    /\ UNCHANGED notChatVars

(***************************************************************************)
(* lcel_pipelines.py: the parallel execution of demonstrate_lcel_pipelines *)
(***************************************************************************)
\* test_text["text"]
test_text ==
    "LangChain is a framework for developing applications powered by language models. It provides modular components and tools for building AI applications."

ParallelModelDicts ==
    { <<"test">>, <<"openai", "ollama">>, <<"openai", "anthropic", "ollama">> }

\* What the chain summary_prompt | model | output_parser of a model returns
SummaryBy(name) == "summary by " \o name

NoMembers == [m \in {} |-> ""]

IdleParallel ==
    /\ par_members = <<>>
    /\ par_state = NoMembers
    /\ par_value = NoMembers
    /\ par_order = <<>>
    /\ par_pc = "idle"
    /\ par_results = NoMembers
    /\ par_out = <<>>

\* Lines 45-64: one chain per model and the passthrough "original" are put in
\* a RunnableParallel; parallel.ainvoke starts every member call and awaits
ParallelBegin ==
    /\ par_pc = "idle"
    /\ \E ms \in ParallelModelDicts :
         /\ par_members' = Append(ms, "original")
         /\ par_state' = [m \in Range(ms) \cup {"original"} |-> "running"]
         /\ par_value' = [m \in Range(ms) \cup {"original"} |-> ""]
    /\ par_order' = <<>>
    /\ par_pc' = "awaiting"
    /\ par_results' = NoMembers
    /\ par_out' = <<>>
    /\ UNCHANGED notLcelVars

\* A member call returns: a model's chain its summary, the passthrough its input
MemberCompletes ==
    /\ par_pc # "idle"
    /\ \E m \in DOMAIN par_state :
         /\ par_state[m] = "running"
         /\ par_state' = [par_state EXCEPT ![m] = "done"]
         /\ par_value' = [par_value EXCEPT
                            ![m] = IF m = "original" THEN test_text ELSE SummaryBy(m)]
         /\ par_order' = Append(par_order, m)
    /\ UNCHANGED <<par_members, par_pc, par_results, par_out>>
    /\ UNCHANGED notLcelVars

\* The call of a model's chain raises
MemberFails ==
    /\ par_pc # "idle"
    /\ \E m \in DOMAIN par_state \ {"original"} :
         /\ par_state[m] = "running"
         /\ par_state' = [par_state EXCEPT ![m] = "failed"]
         /\ par_order' = Append(par_order, m)
    /\ UNCHANGED <<par_members, par_value, par_pc, par_results, par_out>>
    /\ UNCHANGED notLcelVars

RECURSIVE SummaryLines(_, _)
\* Lines 67-69: for name, summary in results.items(): if name != "original"
SummaryLines(names, results) ==
    IF names = <<>> THEN <<>>
    ELSE (IF Head(names) # "original"
          THEN <<"- " \o Head(names) \o ": " \o results[Head(names)]>>
          ELSE <<>>)
         \o SummaryLines(Tail(names), results)

\* Mutant: the results are handed over as soon as one member call has returned
ParallelJoinEarly ==
    /\ par_pc = "awaiting"
    /\ \E m \in DOMAIN par_state : par_state[m] = "done"
    /\ \A m \in DOMAIN par_state : par_state[m] # "failed"
    /\ par_results' = par_value
    /\ par_out' = <<"Original text: " \o par_value["original"], "Summaries:">>
                     \o SummaryLines(par_members, par_value)
    /\ par_pc' = "joined"
    /\ UNCHANGED <<par_members, par_state, par_value, par_order>>
    /\ UNCHANGED notLcelVars

\* Lines 64-69: ainvoke returns the dict of all outputs once every member
\* call has returned; the caller prints the original text and the summaries
ParallelJoin ==
    /\ par_pc = "awaiting"
    /\ \A m \in DOMAIN par_state : par_state[m] = "done"
    /\ par_results' = par_value
    /\ par_out' = <<"Original text: " \o par_value["original"], "Summaries:">>
                     \o SummaryLines(par_members, par_value)
    /\ par_pc' = "joined"
    /\ UNCHANGED <<par_members, par_state, par_value, par_order>>
    /\ UNCHANGED notLcelVars

\* Lines 70-71: ainvoke raises the fault of a member call, which the caller
\* reports; `results` is never assigned. Member calls still running go on.
ParallelRaises ==
    /\ par_pc = "awaiting"
    /\ \E m \in DOMAIN par_state : par_state[m] = "failed"
    /\ par_out' = <<"Parallel execution error: ">>
    /\ par_pc' = "failed"
    /\ UNCHANGED <<par_members, par_state, par_value, par_order, par_results>>
    /\ UNCHANGED notLcelVars

(***************************************************************************)
(* structured_outputs.py: company extraction, lines 81-115                 *)
(***************************************************************************)
ExtractModelDicts ==
    { <<>>, <<"test">>, <<"openai", "ollama">>, <<"openai", "anthropic", "ollama">> }

IdleExtract ==
    /\ ext_models = <<>>
    /\ ext_native = {}
    /\ ext_pc = "idle"
    /\ ext_i = 1
    /\ ext_log = <<>>

\* The position after the iteration of model i has ended
AfterModel(i, ms) == IF i < Len(ms) THEN "native" ELSE "done"

\* The loop `for name, model in models.items()` is entered
ExtractBegin ==
    /\ ext_pc = "idle"
    /\ \E ms \in ExtractModelDicts : \E native \in SUBSET Range(ms) :
         /\ ext_models' = ms
         /\ ext_native' = native
         /\ ext_pc' = IF ms = <<>> THEN "done" ELSE "native"
    /\ ext_i' = 1
    /\ ext_log' = <<>>
    /\ UNCHANGED notExtractVars

\* What the native chain gives: a CompanyInfo record; a fault of
\* with_structured_output or of ainvoke; or a result that is no record, which
\* is printed and then faults on result.key_products
NativeOutcomes == {"record", "fault", "no_record"}

\* Mutant: the iteration goes on to the parser after a native record
ExtractNativeNoContinue ==
    /\ ext_pc = "native"
    /\ ext_models[ext_i] \in ext_native
    /\ \E out \in NativeOutcomes :
         ext_log' = Append(ext_log,
                       [name |-> ext_models[ext_i], strategy |-> "native", outcome |-> out,
                        report |-> IF out = "fault" THEN ""
                                   ELSE "Native structured output: "])
    /\ ext_pc' = "fallback"
    /\ UNCHANGED <<ext_models, ext_native, ext_i>>
    /\ UNCHANGED notExtractVars

\* Lines 85-98: the native attempt of a model that has with_structured_output;
\* a record is printed and `continue` ends the iteration; `except Exception:
\* pass` lets any fault fall through to the parser
ExtractNative ==
    /\ ext_pc = "native"
    /\ ext_models[ext_i] \in ext_native
    /\ \E out \in NativeOutcomes :
         /\ ext_log' = Append(ext_log,
                       [name |-> ext_models[ext_i], strategy |-> "native", outcome |-> out,
                        report |-> IF out = "fault" THEN ""
                                   ELSE "Native structured output: "])
         /\ IF out = "record"
            THEN /\ ext_pc' = AfterModel(ext_i, ext_models)
                 /\ ext_i' = IF ext_i < Len(ext_models) THEN ext_i + 1 ELSE ext_i
            ELSE /\ ext_pc' = "fallback"
                 /\ ext_i' = ext_i
    /\ UNCHANGED <<ext_models, ext_native>>
    /\ UNCHANGED notExtractVars

\* Lines 100-115: the parser-based attempt, reached when the model has no
\* with_structured_output or the native attempt faulted; its fault is printed
ExtractFallback ==
    /\ \/ ext_pc = "fallback"
       \/ ext_pc = "native" /\ ext_models[ext_i] \notin ext_native
    /\ \E out \in {"record", "fault"} :
         ext_log' = Append(ext_log,
                       [name |-> ext_models[ext_i], strategy |-> "parser", outcome |-> out,
                        report |-> IF out = "record" THEN "Parser-based result: "
                                   ELSE "Error: "])
    /\ ext_pc' = AfterModel(ext_i, ext_models)
    /\ ext_i' = IF ext_i < Len(ext_models) THEN ext_i + 1 ELSE ext_i
    /\ UNCHANGED <<ext_models, ext_native>>
    /\ UNCHANGED notExtractVars

(***************************************************************************)
(* research_assistant.py: MultiModelResearchAssistant.compare_models       *)
(***************************************************************************)
IdleCompare ==
    /\ cmp_pc = "idle"
    /\ cmp_query = NoQuery
    /\ cmp_i = 1
    /\ cmp_runs = <<>>
    /\ cmp_results = <<>>
    /\ cmp_out = <<>>

\* Lines 209-214: compare_models(query) is entered, results = {}
CompareBegin ==
    /\ cmp_pc = "idle" /\ pc = "idle" /\ ctx = "none"
    /\ \E q \in Queries : cmp_query' = q
    /\ cmp_pc' = "running"
    /\ cmp_i' = 1
    /\ cmp_runs' = <<>>
    /\ cmp_results' = <<>>
    /\ cmp_out' = <<>>
    /\ UNCHANGED roundVars
    /\ UNCHANGED notRoundVars

\* Line 216: await self.research(query, model_name) is entered for the
\* model_name of the iteration
CompareCallsResearch ==
    /\ cmp_pc = "running" /\ pc = "idle"
    /\ cmp_i <= Len(tool_models)
    /\ ResearchBegin
    /\ call' = [query |-> cmp_query, model_name |-> tool_models[cmp_i]]

\* The locals of a research() call that has ended are gone
ResearchFrameGone ==
    /\ pc' = "idle"
    /\ call' = NoCallArgs
    /\ used_model' = None
    /\ messages' = <<>>
    /\ response' = NoResponse
    /\ tc_i' = 1
    /\ sources' = <<>>
    /\ log' = EmptyLog
    /\ result' = NoResult
    /\ fault' = NoFault
    /\ UNCHANGED <<models, bindable, tool_models, ctx, demo_pos>>

\* Lines 216-217: research returned; results[model_name] = result
CompareCollect ==
    /\ cmp_pc = "running" /\ ctx = "research" /\ pc = "returned"
    /\ cmp_results' = Append(cmp_results,
                         [key |-> tool_models[cmp_i],
                          value |-> [kind |-> result.kind, topic |-> result.topic,
                                     model_used |-> result.model_used]])
    /\ cmp_runs' = Append(cmp_runs, [model_name |-> call.model_name, outcome |-> "returned"])
    /\ cmp_i' = cmp_i + 1
    /\ ResearchFrameGone
    /\ UNCHANGED <<cmp_pc, cmp_query, cmp_out>>
    /\ UNCHANGED notRoundVars

\* Mutant: the fault of research leaves compare_models
CompareReportUncaught ==
    /\ cmp_pc = "running" /\ ctx = "research" /\ pc = "raised"
    /\ cmp_runs' = Append(cmp_runs, [model_name |-> call.model_name, outcome |-> "raised"])
    /\ cmp_pc' = "raised"
    /\ ResearchFrameGone
    /\ UNCHANGED <<cmp_query, cmp_i, cmp_results, cmp_out>>
    /\ UNCHANGED notRoundVars

\* Lines 218-219: research raised; except Exception prints the fault
CompareReport ==
    /\ cmp_pc = "running" /\ ctx = "research" /\ pc = "raised"
    /\ cmp_out' = Append(cmp_out, "Error with " \o tool_models[cmp_i] \o ": " \o fault.kind)
    /\ cmp_runs' = Append(cmp_runs, [model_name |-> call.model_name, outcome |-> "raised"])
    /\ cmp_i' = cmp_i + 1
    /\ ResearchFrameGone
    /\ UNCHANGED <<cmp_pc, cmp_query, cmp_results>>
    /\ UNCHANGED notRoundVars

\* Line 221: return results
CompareReturn ==
    /\ cmp_pc = "running" /\ pc = "idle"
    /\ cmp_i = Len(tool_models) + 1
    /\ cmp_pc' = "returned"
    /\ UNCHANGED <<cmp_query, cmp_i, cmp_runs, cmp_results, cmp_out>>
    /\ UNCHANGED roundVars
    /\ UNCHANGED notRoundVars

IdleExamples == IdleSchema /\ IdleChat /\ IdleParallel /\ IdleExtract /\ IdleCompare

(***************************************************************************)
(* Specifications                                                          *)
(***************************************************************************)
\* A configuration that is not exercised
IdleConfig ==
    /\ provider = "openai"
    /\ openai_api_key = None
    /\ anthropic_api_key = None
    /\ ctorFails = {}
    /\ getModel = NoCall
    /\ gam_pc = "idle"
    /\ gam_i = 1
    /\ gam_models = <<>>
    /\ gam_tried = <<>>
    /\ gam_out = <<>>

\* An assistant that is not exercised
IdleRound ==
    /\ models = <<>>
    /\ bindable = {}
    /\ tool_models = <<>>
    /\ ctx = "none"
    /\ pc = "idle"
    /\ call = NoCallArgs
    /\ used_model = None
    /\ messages = <<>>
    /\ response = NoResponse
    /\ tc_i = 1
    /\ sources = <<>>
    /\ log = EmptyLog
    /\ result = NoResult
    /\ fault = NoFault
    /\ demo_pos = [section |-> "none", q |-> 0, m |-> 0]

\* The tool-use rounds of research() and of demonstrate_tool_usage
Init == InitTools /\ IdleConfig /\ InitRound /\ IdleExamples

Next ==
    \/ ResearchBegin
    \/ ResearchFirstCallFails
    \/ ResearchFirstCall
    \/ ResearchExecTool
    \/ ResearchFollowUpFails
    \/ ResearchFollowUp
    \/ DemoBegin
    \/ DemoFirstCallFails
    \/ DemoFirstCall
    \/ DemoExecTool
    \/ DemoFollowUpFails
    \/ DemoFollowUp
    \/ DemoNextRound
    \/ DemoFallback

Spec == Init /\ [][Next]_vars

\* ModelConfig
InitC == InitTools /\ InitConfig /\ IdleRound /\ IdleExamples

NextC ==
    \/ CallGetModel
    \/ GetAllModelsBegin
    \/ GetAllModelsTry
    \/ GetAllModelsReturn

SpecConfig == InitC /\ [][NextC]_vars

\* The tools, invoked directly
InitT == InitTools /\ IdleConfig /\ IdleRound /\ IdleExamples

NextT ==
    \/ CallGetWeather
    \/ CallCalculate
    \/ CallGetTime
    \/ Tick
    \/ CallSearchKnowledge
    \/ CallSearchPapers
    \/ CallGetExpertOpinion

SpecTools == InitT /\ [][NextT]_vars

\* The record schemas
InitS == InitTools /\ IdleConfig /\ IdleRound /\ IdleExamples

NextS ==
    \/ ConstructRecord
    \/ ValidateAgain

SpecSchema == InitS /\ [][NextS]_vars

\* demonstrate_basic_chat
InitChat == InitTools /\ IdleConfig /\ IdleRound /\ IdleExamples

NextChat ==
    \/ ChatBegin
    \/ ChatInvoke
    \/ ChatTemperature
    \/ ChatStream
    \/ ChatReturn

SpecChat == InitChat /\ [][NextChat]_vars

\* The parallel execution of demonstrate_lcel_pipelines
InitParallel == InitTools /\ IdleConfig /\ IdleRound /\ IdleExamples

NextParallel ==
    \/ ParallelBegin
    \/ MemberCompletes
    \/ MemberFails
    \/ ParallelJoin
    \/ ParallelRaises

SpecParallel == InitParallel /\ [][NextParallel]_vars

\* Company extraction
InitExtract == InitTools /\ IdleConfig /\ IdleRound /\ IdleExamples

NextExtract ==
    \/ ExtractBegin
    \/ ExtractNative
    \/ ExtractFallback

SpecExtract == InitExtract /\ [][NextExtract]_vars

\* compare_models and the research() calls it makes
InitCompare == InitTools /\ IdleConfig /\ InitRound /\ IdleExamples

NextCompare ==
    \/ CompareBegin
    \/ CompareCallsResearch
    \/ ResearchFirstCallFails
    \/ ResearchFirstCall
    \/ ResearchExecTool
    \/ ResearchFollowUpFails
    \/ ResearchFollowUp
    \/ CompareCollect
    \/ CompareReport
    \/ CompareReturn

SpecCompare == InitCompare /\ [][NextCompare]_vars

(***************************************************************************)
(* Properties of the tool-use round                                        *)
(***************************************************************************)
\* The first model call of the running round has returned a response
FirstReceived ==
    /\ log.model_calls # <<>>
    /\ log.model_calls[1].call = "first"
    /\ ~(fault.kind = "ModelCallFailed" /\ fault.text = "first")

\* The tool requests of the first response of the running round
FirstToolCalls ==
    IF ctx = "research" THEN messages[2].tool_calls ELSE response.tool_calls

\* How many follow-up model calls the running round has issued
FollowUpsIssued ==
    Cardinality({ i \in 1..Len(log.model_calls) : log.model_calls[i].call = "follow_up" })

\* C1: in a round of research() or of the demo loops, when the follow-up call
\* is due or issued after a first response with N tool requests, the turn holds
\* exactly N tool results after that response, the i-th with the identifier of
\* the i-th request; the follow-up is issued at most once; with N = 0 no
\* follow-up is issued and the first response is the final one.
C1_RoundTrip ==
    (ctx \in {"research", "demo"} /\ FirstReceived) =>
        LET N == Len(FirstToolCalls) IN
        /\ FollowUpsIssued <= 1
        /\ (FollowUpsIssued = 1 \/ pc = "follow_up") =>
              /\ N >= 1
              /\ Len(messages) = 2 + N
              /\ messages[1].type = "human"
              /\ messages[2].type = "ai"
              /\ \A i \in 1..N :
                    /\ messages[2 + i].type = "tool"
                    /\ messages[2 + i].tool_call_id = FirstToolCalls[i].id
        /\ N = 0 =>
              /\ FollowUpsIssued = 0
              /\ Len(log.model_calls) = 1
              /\ log.executed = <<>>
              /\ ctx = "research" =>
                    /\ pc = "returned"
                    /\ response.content = messages[2].content
                    /\ result.summary = messages[2].content
              /\ ctx = "demo" => pc = "round_done"

\* A research round with two tool requests whose follow-up call was issued
C1_Witness ==
    /\ ctx = "research"
    /\ pc = "returned"
    /\ FollowUpsIssued = 1
    /\ Len(messages[2].tool_calls) = 2
    /\ messages[3].tool_call_id = "call_1"
    /\ messages[4].tool_call_id = "call_2"

\* C2: a failing tool execution does not abort the round: no tool failure
\* leaves the for loop as an exception, every request that was dispatched has
\* its tool result in the turn, and a round whose first response carried
\* requests does not end without its follow-up call.
C2_ToolFailureKeepsRound ==
    (ctx \in {"research", "demo"}) =>
        /\ fault.kind # "ToolFault"
        /\ Len(log.executed) = Len(log.lookups)
        /\ (pc \in {"returned", "raised", "round_done"} /\ FirstReceived
              /\ Len(FirstToolCalls) > 0) => Len(log.model_calls) = 2

\* C3: research() issues at most two model calls, executes only tools the
\* first response requested, stops at the second response whatever it
\* contains, and builds its result from the last response received.
C3_OneLevel ==
    ctx = "research" =>
        /\ Len(log.model_calls) <= 2
        /\ FirstReceived =>
              /\ Len(log.executed) <= Len(messages[2].tool_calls)
              /\ \A i \in 1..Len(log.executed) :
                    /\ log.executed[i].id = messages[2].tool_calls[i].id
                    /\ log.executed[i].name = messages[2].tool_calls[i].name
        /\ (FollowUpsIssued = 1 /\ fault.kind = "none") => pc = "returned"
        /\ pc = "returned" =>
              /\ result.kind = "ResearchResult"
              /\ result.summary = response.content
              /\ result.key_findings =
                    (IF KeyFindings(response.content) # <<>>
                     THEN KeyFindings(response.content) ELSE <<"Research completed">>)
              /\ Len(log.model_calls) = 2 =>
                    /\ log.model_calls[2].call = "follow_up"
                    /\ response \in SecondResponses("research")

\* research() has returned after a second response that requests a tool
C3_Witness ==
    /\ ctx = "research"
    /\ pc = "returned"
    /\ Len(log.model_calls) = 2
    /\ response.tool_calls # <<>>
    /\ Len(log.executed) = Len(messages[2].tool_calls)

\* C4: a fault of a model call inside research() is not retried: the call that
\* faulted is the last one issued and was issued once, research() ends with the
\* fault and without a result; after a fault of the first call no tool was
\* looked up or executed and no follow-up call was issued.
C4_NoRetry ==
    (ctx = "research" /\ fault.kind = "ModelCallFailed") =>
        /\ pc = "raised"
        /\ result = NoResult
        /\ Len(log.model_calls) >= 1
        /\ log.model_calls[Len(log.model_calls)].call = fault.text
        /\ \A i \in 1..(Len(log.model_calls) - 1) : log.model_calls[i].call # fault.text
        /\ fault.text = "first" =>
              /\ Len(log.model_calls) = 1
              /\ log.lookups = <<>>
              /\ log.executed = <<>>
              /\ Len(messages) = 1

\* The follow-up call of a research round faulted after its tools ran
C4_Witness ==
    /\ ctx = "research"
    /\ fault.kind = "ModelCallFailed"
    /\ fault.text = "follow_up"
    /\ Len(log.executed) = 2

\* The tool-capable models: those of `models` whose bind_tools succeeds
Capable == { n \in Range(models) : n \in bindable }

\* The first tool-capable model in the order of `models`
FirstCapable ==
    models[CHOOSE i \in 1..Len(models) :
              /\ models[i] \in bindable
              /\ \A j \in 1..(i - 1) : models[j] \notin bindable]

\* The model the selection policy names for a model_name argument
ExpectedModel(mn) ==
    IF mn \in Capable THEN mn
    ELSE IF "openai" \in Capable THEN "openai"
    ELSE IF "anthropic" \in Capable THEN "anthropic"
    ELSE FirstCapable

\* C5: research() uses the named model when it is tool-capable, otherwise
\* openai, otherwise anthropic, otherwise the first tool-capable model; with no
\* tool-capable model it raises before any model call; every model call goes
\* to the selected model and model_used names it.
C5_ModelSelection ==
    ctx = "research" =>
        IF Capable = {}
        THEN /\ pc = "raised"
             /\ fault.kind = "ValueError"
             /\ log.model_calls = <<>>
             /\ result = NoResult
        ELSE /\ used_model = ExpectedModel(call.model_name)
             /\ used_model \in Capable
             /\ \A i \in 1..Len(log.model_calls) :
                   log.model_calls[i].model = ExpectedModel(call.model_name)
             /\ pc = "returned" => result.model_used = ExpectedModel(call.model_name)

\* A named model that is not tool-capable, no preferred provider: the first
\* of two remaining tool-capable models ran the research
C5_Witness ==
    /\ ctx = "research"
    /\ pc = "returned"
    /\ models = <<"test", "ollama">>
    /\ bindable = {"test", "ollama"}
    /\ call.model_name = "openai"
    /\ result.model_used = "test"
    /\ Len(log.model_calls) = 2

\* C6: tool dispatch goes through the registry only: a requested name of the
\* bound tool set resolves to that tool, and every other name is signalled as
\* not found, never resolved to another object of the process.
C6_RegistryOnly ==
    \A i \in 1..Len(log.lookups) :
        IF log.lookups[i].name \in BoundTools(ctx)
        THEN log.lookups[i].found = "tool"
        ELSE log.lookups[i].found = "KeyError"

(***************************************************************************)
(* Properties of ModelConfig                                               *)
(***************************************************************************)
\* The required credential of a provider is present
CredentialPresent(p) ==
    /\ p = "openai" => openai_api_key \notin {None, ""}
    /\ p = "anthropic" => anthropic_api_key \notin {None, ""}

\* The initialisation of a provider succeeds
InitSucceeds(p) == CredentialPresent(p) /\ p \notin ctorFails

\* The keys of the dict get_all_models builds, in order
GamKeys == [i \in 1..Len(gam_models) |-> gam_models[i].name]

\* C7: get_all_models tries openai, anthropic, ollama in that order whatever
\* fails, never raises, and its mapping holds exactly the providers tried so
\* far whose initialisation succeeded; on return all three were tried.
C7_AllModels ==
    /\ gam_pc \in {"idle", "loop", "returned"}
    /\ gam_tried = SubSeq(<<"openai", "anthropic", "ollama">>, 1, Len(gam_tried))
    /\ GamKeys = SelectSeq(gam_tried, InitSucceeds)
    /\ Len(gam_out) = Len(gam_tried)
    /\ gam_pc = "returned" => Len(gam_tried) = 3

\* openai has no credential; the two providers after it were still tried and
\* are the two entries of the mapping returned
C7_Witness ==
    /\ gam_pc = "returned"
    /\ ~CredentialPresent("openai")
    /\ GamKeys = <<"anthropic", "ollama">>

\* The three provider names get_model knows
KnownProviders == {"openai", "anthropic", "ollama"}

\* What C8 states of a get_model call whose effective provider is eff
GetModelContract(eff) ==
    /\ getModel.outcome = "returned" =>
          /\ eff \in KnownProviders
          /\ CredentialPresent(eff)
          /\ getModel.handle.provider = eff
    /\ (eff \notin KnownProviders \/ ~CredentialPresent(eff)) =>
          /\ getModel.outcome = "raised"
          /\ getModel.handle = NoHandle

\* C8 as stated: the effective provider is the argument, or the configured
\* default when the argument is absent (None).
C8_Original ==
    getModel.outcome # "none" =>
        GetModelContract(IF getModel.arg = None THEN provider ELSE getModel.arg)

\* C8, amended: the effective provider is the argument, or the configured
\* default when the argument is absent or the empty string; get_model returns a
\* handle only when it is one of openai, anthropic, ollama with its credential
\* present, and raises for an unrecognised name or a missing API key.
C8_GetModel ==
    getModel.outcome # "none" =>
        GetModelContract(IF getModel.arg \in {None, ""} THEN provider ELSE getModel.arg)

\* get_model() without argument returned the handle of the default provider
C8_Witness ==
    /\ getModel.outcome = "returned"
    /\ getModel.arg = None
    /\ provider = "anthropic"
    /\ getModel.handle.cls = "ChatAnthropic"

(***************************************************************************)
(* Properties of the tools                                                 *)
(***************************************************************************)
\* C9: calculate never lets a fault escape: for every expression it returns a
\* text starting with 'Result: ' or with 'Error: '; '2 + 2' gives 'Result: 4'
\* and 'invalid' gives an 'Error: ' text.
C9_CalculateNeverRaises ==
    toolCall.tool = "calculate" =>
        /\ toolCall.outcome = "returned"
        /\ StartsWith(toolCall.text, "Result: ") \/ StartsWith(toolCall.text, "Error: ")
        /\ toolCall.arg = "2 + 2" => toolCall.text = "Result: 4"
        /\ toolCall.arg = "invalid" => StartsWith(toolCall.text, "Error: ")

\* C10: the text of get_weather(city) holds the city as given and the marker
\* '°C'; it is the city, one of the four conditions and a temperature between
\* 15 and 30, so that two calls for a city differ in these two only.
C10_Weather ==
    toolCall.tool = "get_weather" =>
        /\ toolCall.outcome = "returned"
        /\ Contains(toolCall.text, toolCall.arg)
        /\ Contains(toolCall.text, "°C")
        /\ \E c \in {"Sunny", "Cloudy", "Rainy", "Partly Cloudy"}, t \in 15..30 :
              toolCall.text = toolCall.arg \o ": " \o c \o ", " \o ToString(t) \o "°C"

\* get_weather('London') drew the lowest temperature
C10_Witness ==
    /\ toolCall.tool = "get_weather"
    /\ toolCall.arg = "London"
    /\ toolCall.text = "London: Rainy, 15°C"

\* The clock value a get_time text reports: its last 19 characters,
\* 'YYYY-MM-DD HH:MM:SS'
ClockValue(text) == SubSeq(text, Len(text) - 18, Len(text))

KeysIn(query) ==
    { k \in {"langchain", "python", "ai"} : Contains(Lower(query), k) }

\* C12: search_knowledge never signals an error; it returns the fact of the
\* first key, in the order langchain, python, ai, that occurs in the
\* lower-cased query, and the 'No information found' text quoting the query
\* when no key occurs.
C12_Knowledge ==
    toolCall.tool = "search_knowledge" =>
        LET keys == KeysIn(toolCall.arg) IN
        /\ toolCall.outcome = "returned"
        /\ "langchain" \in keys =>
              toolCall.text = "LangChain is a framework for developing applications powered by language models."
        /\ ("langchain" \notin keys /\ "python" \in keys) =>
              toolCall.text = "Python is a high-level programming language known for its simplicity."
        /\ (keys = {"ai"}) =>
              toolCall.text = "Artificial Intelligence is the simulation of human intelligence by machines."
        /\ keys = {} =>
              toolCall.text = "No information found for '" \o toolCall.arg \o "'"

\* A query in capitals naming two keys got the fact of the earlier key
C12_Witness ==
    /\ toolCall.tool = "search_knowledge"
    /\ toolCall.arg = "AI and Python"
    /\ StartsWith(toolCall.text, "Python is")

\* limit clamped to the range 0..5
ClampLimit(limit) == IF limit < 0 THEN 0 ELSE IF limit > 5 THEN 5 ELSE limit

\* The titles a search_papers text lists: its non-empty lines after the header
ListedTitles(text) ==
    LET lines == Split(text, "\n") IN
    { i \in 2..Len(lines) : lines[i] # "" }

\* C13: search_papers lists as many titles as limit clamped to 0..5 (5 when
\* limit is omitted), for every integer limit; the number in the 'Found N
\* papers' header is the number of titles listed; the text is fixed by topic
\* and limit: the header and the first titles of the topic's five.
C13_PaperCount ==
    toolCall.tool = "search_papers" =>
        LET n == ClampLimit(toolCall.limit)
            topic == toolCall.arg
            five == << "'" \o topic \o "' - Comprehensive Review (2024)",
                       "Advances in " \o topic \o ": Recent Developments (2023)",
                       "Understanding " \o topic \o ": A Practical Guide (2024)",
                       topic \o " Applications in Industry (2023)",
                       "Future of " \o topic \o ": Predictions and Trends (2024)" >>
        IN
        /\ toolCall.outcome = "returned"
        /\ ~toolCall.given => Cardinality(ListedTitles(toolCall.text)) = 5
        /\ Cardinality(ListedTitles(toolCall.text)) = n
        /\ Split(toolCall.text, "\n")[1]
              = "Found " \o ToString(Cardinality(ListedTitles(toolCall.text))) \o " papers:"
        /\ toolCall.text = "Found " \o ToString(n) \o " papers:\n"
                              \o Join("\n", SubSeq(five, 1, n))

\* C14: get_expert_opinion returns the opinion of the table entry the topic
\* names: a topic equal to the key ai, blockchain or quantum, in any letter
\* case, gets that entry's opinion, and a topic containing no table key gets
\* the generic opinion mentioning the topic.
C14_Opinion ==
    toolCall.tool = "get_expert_opinion" =>
        LET t == Lower(toolCall.arg)
            head == "Expert opinion on " \o toolCall.arg \o ": "
        IN
        /\ toolCall.outcome = "returned"
        /\ t = "ai" => toolCall.text = head
              \o "AI will transform every industry, but ethical considerations are crucial."
        /\ t = "blockchain" => toolCall.text = head
              \o "Blockchain's real value lies in transparency and decentralization."
        /\ t = "quantum" => toolCall.text = head
              \o "Quantum computing will revolutionize cryptography and drug discovery."
        /\ (\A k \in {"ai", "blockchain", "quantum", "default"} : ~Contains(t, k)) =>
              toolCall.text = head \o toolCall.arg
                  \o " shows promising potential but requires careful implementation."

(***************************************************************************)
(* Properties of the result of research()                                  *)
(***************************************************************************)
RECURSIVE MarkedLines(_)
\* The lines that begin, after leading whitespace, with a bullet marker, each
\* without that one marker and without surrounding whitespace
MarkedLines(lines) ==
    IF lines = <<>> THEN <<>>
    ELSE LET t == Strip(Head(lines)) IN
         IF StartsWith(t, "-") \/ StartsWith(t, Bullet)
         THEN <<Strip(SubSeq(t, 2, Len(t)))>> \o MarkedLines(Tail(lines))
         ELSE MarkedLines(Tail(lines))

\* C15: the key_findings of a returned ResearchResult are the lines of the
\* final response that begin with a bullet marker, in order, at most the
\* first 5, each with only its marker and surrounding whitespace removed; with
\* no such line, the single placeholder 'Research completed'.
C15_KeyFindings ==
    (ctx = "research" /\ pc = "returned") =>
        LET marked == MarkedLines(Split(response.content, "\n")) IN
        result.key_findings =
            (IF marked = <<>> THEN <<"Research completed">>
             ELSE SubSeq(marked, 1, IF Len(marked) < 5 THEN Len(marked) ELSE 5))

\* C16: research() with a depth that is no key of the template table ends
\* with a fault: no prompt is made from another template, nothing is
\* returned, and no model call, tool lookup or tool execution happens.
C16_UnknownDepth ==
    (ctx = "research" /\ call.query.depth \notin {"quick", "moderate", "deep"}) =>
        /\ pc = "raised"
        /\ fault.kind \in {"KeyError", "ValueError"}
        /\ messages = <<>>
        /\ result = NoResult
        /\ log.model_calls = <<>>
        /\ log.lookups = <<>>
        /\ log.executed = <<>>

\* research() with depth 'thorough' raised KeyError after selecting openai
C16_Witness ==
    /\ ctx = "research"
    /\ call.query.depth = "thorough"
    /\ used_model = "openai"
    /\ fault = [kind |-> "KeyError", text |-> "thorough"]

(***************************************************************************)
(* Properties of the record schemas                                        *)
(***************************************************************************)
\* The declared fields of a schema that have a default, with the default
DeclaredDefaults(schema) ==
    CASE schema = "CompanyInfo" -> [employee_count |-> NoneV]
      [] schema = "ResearchQuery" -> [depth |-> StrV("moderate"), focus_areas |-> ListV(<<>>)]
      [] OTHER -> NoRecord

DeclaredNames(schema) ==
    CASE schema = "Person" -> {"name", "age", "occupation", "skills"}
      [] schema = "CompanyInfo" ->
            {"name", "industry", "founded_year", "headquarters", "key_products",
             "employee_count"}
      [] schema = "ResearchQuery" -> {"topic", "depth", "focus_areas"}
      [] schema = "ResearchResult" ->
            {"topic", "summary", "key_findings", "sources_consulted",
             "confidence_score", "model_used", "timestamp"}

\* Python's v == w: the same value, or an int and the float equal to it
SameValue(v, w) ==
    \/ w = v
    \/ v.t = "int" /\ w.t = "float" /\ w.n = v.n * 100

\* The given value v is held as w: an equal value, or the int a text denotes
HeldAs(v, w) ==
    \/ SameValue(v, w)
    \/ v.t = "str" /\ w.t = "int" /\ ToString(w.n) = v.s

\* A required field is missing, or the confidence score is outside 0..1
MustFault(schema, fields) ==
    \/ \E k \in DeclaredNames(schema) \ DOMAIN DeclaredDefaults(schema) : k \notin DOMAIN fields
    \/ /\ schema = "ResearchResult"
       /\ "confidence_score" \in DOMAIN fields
       /\ fields["confidence_score"].t \in {"int", "float"}
       /\ LET c == fields["confidence_score"]
              h == IF c.t = "int" THEN c.n * 100 ELSE c.n
          IN  h < 0 \/ h > 100

\* All-or-nothing and idempotent, the held values compared by Held
SchemaContract(Held(_, _)) ==
    validation.outcome # "none" =>
        LET fields == validation.fields
            schema == validation.schema
            rec == validation.record
            defaults == DeclaredDefaults(schema)
        IN
        /\ validation.outcome \in {"record", "ValidationError"}
        /\ MustFault(schema, fields) => validation.outcome = "ValidationError"
        /\ validation.outcome = "ValidationError" => rec = NoRecord
        /\ validation.outcome = "record" =>
              /\ DOMAIN rec = DeclaredNames(schema)
              /\ \A k \in DOMAIN rec :
                    IF k \in DOMAIN fields THEN Held(fields[k], rec[k])
                    ELSE k \in DOMAIN defaults /\ rec[k] = defaults[k]
              /\ validation.again # NoOutcome =>
                    /\ validation.again.outcome = "record"
                    /\ validation.again.record = rec

C18_ChatNeverRaises ==
    chat_pc # "idle" =>
        LET plan == ChatPlan(chat_models) IN
        /\ chat_pc # "raised"
        /\ Len(chat_log) = chat_i - 1
        /\ \A i \in 1..Len(chat_log) :
              /\ chat_log[i].section = plan[i].section
              /\ chat_log[i].name = plan[i].name
              /\ chat_log[i].temp = plan[i].temp
              /\ chat_log[i].failed # "none" => chat_log[i].report # ""
        /\ chat_pc = "returned" =>
              /\ Len(chat_log) = 5 * Len(chat_models)
              /\ \A m \in Range(chat_models) :
                    /\ \E i \in 1..Len(chat_log) :
                          chat_log[i].name = m /\ chat_log[i].called = <<"invoke">>
                    /\ Cardinality({ i \in 1..Len(chat_log) :
                          chat_log[i].name = m /\ chat_log[i].section = "temperature" }) = 3
                    /\ \E i \in 1..Len(chat_log) :
                          chat_log[i].name = m /\ chat_log[i].section = "streaming"

\* The function returned although the first model's invoke, its re-creation
\* and its stream all faulted, and the second model was still served
C18_Witness ==
    /\ chat_pc = "returned"
    /\ chat_models = <<"openai", "ollama">>
    /\ chat_log[1].failed = "invoke"
    /\ chat_log[2].failed = "none"
    /\ chat_log[3].failed = "get_model"
    /\ chat_log[4].failed = "none"
    /\ chat_log[9].failed = "astream"
    /\ chat_log[10].failed = "none"

(***************************************************************************)
(* Properties of the parallel execution                                    *)
(***************************************************************************)
\* C19: the aggregate of the parallel summary chains is a join barrier: under
\* every interleaving of the member calls, the caller holds or prints a
\* summary only when every member call has returned or failed, and every
\* member's output is its own: no call writes what another call wrote.
C19_JoinBarrier ==
    par_pc # "idle" =>
        /\ (par_results # NoMembers \/ \E i \in 1..Len(par_out) : StartsWith(par_out[i], "- ")) =>
              \A m \in DOMAIN par_state : par_state[m] \in {"done", "failed"}
        /\ par_pc = "joined" =>
              /\ DOMAIN par_results = Range(par_members)
              /\ \A m \in Range(par_members) \ {"original"} :
                    par_results[m] = "summary by " \o m
        /\ par_pc = "failed" => par_results = NoMembers
        /\ \A m \in DOMAIN par_state :
              /\ par_state[m] = "done" /\ m # "original" => par_value[m] = "summary by " \o m
              /\ par_state[m] # "done" => par_value[m] = ""

\* The caller joined three summaries whose calls ended in another order than
\* they were started
C19_Witness ==
    /\ par_pc = "joined"
    /\ par_members = <<"openai", "anthropic", "ollama", "original">>
    /\ par_order = <<"ollama", "original", "anthropic", "openai">>
    /\ Len(par_out) = 5

(***************************************************************************)
(* Properties of company extraction                                        *)
(***************************************************************************)
\* The attempts logged for a model, as indices of ext_log
AttemptsOf(name, strategy) ==
    { i \in 1..Len(ext_log) : ext_log[i].name = name /\ ext_log[i].strategy = strategy }

\* The models whose iteration has ended
Processed ==
    { ext_models[i] : i \in { j \in 1..Len(ext_models) : j < ext_i \/ ext_pc = "done" } }

\* C20: per model the strategies are attempted in order: native decoding
\* first, exactly when the model offers it; the parser only when native
\* decoding is unavailable or faulted, never after it delivered a record; a
\* fault of both is reported and the following models are still processed.
C20_Strategies ==
    ext_pc # "idle" =>
        /\ \A i \in 1..Len(ext_log) :
              /\ ext_log[i].strategy = "native" => ext_log[i].name \in ext_native
              /\ ext_log[i].strategy = "parser" =>
                    \/ ext_log[i].name \notin ext_native
                    \/ /\ i > 1
                       /\ ext_log[i - 1].name = ext_log[i].name
                       /\ ext_log[i - 1].strategy = "native"
                       /\ ext_log[i - 1].outcome # "record"
              /\ (ext_log[i].strategy = "parser" /\ ext_log[i].outcome = "fault") =>
                    ext_log[i].report = "Error: "
        /\ \A m \in Processed :
              /\ Cardinality(AttemptsOf(m, "native")) = (IF m \in ext_native THEN 1 ELSE 0)
              /\ Cardinality(AttemptsOf(m, "parser")) <= 1
              /\ \A i \in AttemptsOf(m, "native"), j \in AttemptsOf(m, "parser") : i < j
              /\ (\E i \in AttemptsOf(m, "native") : ext_log[i].outcome = "record") =>
                    AttemptsOf(m, "parser") = {}
              /\ (\A i \in AttemptsOf(m, "native") : ext_log[i].outcome # "record") =>
                    Cardinality(AttemptsOf(m, "parser")) = 1
        /\ ext_pc = "done" => Processed = Range(ext_models)
        /\ \A i, j \in 1..Len(ext_log) :
              (i < j /\ ext_log[i].name # ext_log[j].name) =>
                 \E a, b \in 1..Len(ext_models) :
                    a < b /\ ext_models[a] = ext_log[i].name /\ ext_models[b] = ext_log[j].name

\* Both strategies faulted on the first model and the second was still served
C20_Witness ==
    /\ ext_pc = "done"
    /\ ext_models = <<"openai", "ollama">>
    /\ Len(ext_log) = 3
    /\ ext_log[1] = [name |-> "openai", strategy |-> "native", outcome |-> "fault", report |-> ""]
    /\ ext_log[2] = [name |-> "openai", strategy |-> "parser", outcome |-> "fault",
                     report |-> "Error: "]
    /\ ext_log[3].name = "ollama"
    /\ ext_log[3].outcome = "record"

(***************************************************************************)
(* Properties of compare_models                                            *)
(***************************************************************************)
\* The research calls that returned, in order
RECURSIVE ReturnedRuns(_)
ReturnedRuns(runs) ==
    IF runs = <<>> THEN <<>>
    ELSE (IF Head(runs).outcome = "returned" THEN <<Head(runs).model_name>> ELSE <<>>)
         \o ReturnedRuns(Tail(runs))

\* C21: compare_models runs research once per tool-capable model, one after
\* another in the order of tool_models, and never raises on a research fault:
\* the mapping holds an entry for exactly the models whose research returned,
\* each entry's model_used is its key, and each fault is reported while the
\* remaining models are still run.
C21_CompareModels ==
    cmp_pc # "idle" =>
        /\ cmp_pc # "raised"
        /\ Len(cmp_runs) <= Len(tool_models)
        /\ \A i \in 1..Len(cmp_runs) : cmp_runs[i].model_name = tool_models[i]
        /\ (ctx = "research" /\ pc # "idle") =>
              /\ Len(cmp_runs) < Len(tool_models)
              /\ call.model_name = tool_models[Len(cmp_runs) + 1]
              /\ call.query = cmp_query
        /\ Len(cmp_results) = Len(ReturnedRuns(cmp_runs))
        /\ \A i \in 1..Len(cmp_results) :
              /\ cmp_results[i].key = ReturnedRuns(cmp_runs)[i]
              /\ cmp_results[i].value.kind = "ResearchResult"
              /\ cmp_results[i].value.model_used = cmp_results[i].key
        /\ Len(cmp_out) = Len(cmp_runs) - Len(cmp_results)
        /\ \A i \in 1..Len(cmp_runs) :
              cmp_runs[i].outcome = "raised" =>
                 \E j \in 1..Len(cmp_out) :
                    StartsWith(cmp_out[j], "Error with " \o cmp_runs[i].model_name \o ": ")
        /\ cmp_pc = "returned" => Len(cmp_runs) = Len(tool_models)

\* compare_models returned the results of the first and the third model after
\* the research of the second one had raised
C21_Witness ==
    /\ cmp_pc = "returned"
    /\ tool_models = <<"openai", "anthropic", "ollama">>
    /\ Len(cmp_runs) = 3
    /\ cmp_runs[2].outcome = "raised"
    /\ Len(cmp_results) = 2
    /\ cmp_results[1].key = "openai"
    /\ cmp_results[2].key = "ollama"
    /\ cmp_results[2].value.model_used = "ollama"

\* C22: every ResearchResult research() returns, whatever the final response
\* text, has between 1 and 5 key findings, none of them the empty string.
C22_FindingsNonEmpty ==
    (ctx = "research" /\ pc = "returned") =>
        /\ result.kind = "ResearchResult"
        /\ Len(result.key_findings) >= 1
        /\ Len(result.key_findings) <= 5
        /\ \A i \in 1..Len(result.key_findings) : result.key_findings[i] # ""

====
